---- MODULE Spec2Model ----
(***************************************************************************)
(* Model of the ink-queries client: the confidential (Phala) query paths   *)
(* of substrate/phala.rs, the query dispatcher of contract/query.rs, the   *)
(* contract-id configuration of contract/ink/mod.rs and the message        *)
(* transcoder of transcoder/mod.rs.                                        *)
(***************************************************************************)
EXTENDS Integers, Sequences, FiniteSets, TLC

\* ------------------------------------------------------------------ bounds
\* Number of concurrent calls of the confidential API (sessions,
\* pink_query_raw, query_test) in a run of Spec.
MaxCalls == 2
\* Number of concurrent calls in a run of QuerySpec, where every entry
\* point, the dispatcher included, may be used.
MaxQueries == 1
\* Nonce values a caller or a worker reply may carry: 0..MaxNonce.
MaxNonce == 2

Calls == 1..MaxCalls
Nonces == 0..MaxNonce

\* ------------------------------------------------- values of the program
\* `let nonce = [1; 32];` in contract_query, query_test and the debug CLI.
FixedNonce == 1
\* The caller's long-lived sr25519 pair (`signer: &PairSigner`).
SignerKey == [call |-> 0, idx |-> 0]
\* The key-agreement public key the worker publishes.
WorkerKey == [call |-> 0, idx |-> 1]

\* Option<T>: None is <<>>, Some(x) is <<x>>.
NoneV == <<>>
Some(x) == <<x>>
IsSome(o) == Len(o) = 1
Unwrap(o) == o[1]

\* anyhow::Result / Result<Value, ErrorVariant> as returned to the caller.
Ok(v) == [tag |-> "Ok", val |-> v]
Err(e) == [tag |-> "Err", err |-> e]
Pending == [tag |-> "Pending"]

\* enum Query { InkQuery(msg, account_id), PhalaQuery(msg, contract_id, nonce) }
InkQueryV == [kind |-> "InkQuery", nonce |-> NoneV]
PhalaQueryV(n) == [kind |-> "PhalaQuery", nonce |-> Some(n)]
Queries == {InkQueryV} \cup {PhalaQueryV(n) : n \in Nonces}

\* Response::Payload(Vec<u8>) as the session and the free functions hand it
\* back: opaque bytes.
Payloads == {"payload_a", "payload_b"}

\* The bytes of a dry run as the dispatcher reads them: not a
\* ContractExecResult at all, or one whose `result` is Err(DispatchError), or
\* Ok(ExecReturnValue { flags, data }) with `data` shorter than, exactly, or
\* longer than the encoding of the message's return type.
DispatchErrors == {"module_in_metadata", "module_not_in_metadata", "other"}
ReturnData == {"short", "exact", "overlong"}
ExecResults ==
    {[exec |-> "undecodable"]}
    \cup [exec : {"dispatch_error"}, error : DispatchErrors]
    \cup [exec : {"ok"}, revert : BOOLEAN, data : ReturnData]

\* How msg_name resolves in the transcoder's metadata.
MsgKinds == {"unknown", "no_return_type", "has_return_type"}

VARIABLES
    api,        \* per call: which entry point the caller used
    variant,    \* per call: the variant of the Query handed in, if any
    pc,         \* per call: position in that entry point
    sess,       \* per call: PhalaQuery<T> fields, or the locals of the free functions
    rpc,        \* per call: the RPCs issued so far, in order
    out,        \* per call: what was returned to the caller
    sent,       \* per call: the confidential request submitted (history)
    recv,       \* per call: how the reply was opened and what it echoed (history)
    info,       \* per call: what get_info answered (history)
    cfg,        \* configuration loading: the toml table read
    meta,       \* configuration loading: result of InkMeta::from_config_file
    enc         \* transcoder: input and result of a ContractMessageTranscoder call

callVars == <<api, variant, pc, sess, rpc, out, sent, recv, info>>
vars == <<api, variant, pc, sess, rpc, out, sent, recv, info, cfg, meta, enc>>

\* struct PhalaQuery<T> { nonce, remote_pubkey, signer, state: T }
\* Default for PhalaQuery<Ready>: every Option is None.
ReadySession ==
    [nonce |-> NoneV, remote_pubkey |-> NoneV, signer |-> NoneV,
     state |-> [phase |-> "Ready"]]

\* The plaintext envelope ContractQuery { head: { id, nonce }, data }.
Envelope(n, data) == [id |-> "contract_id", nonce |-> n, data |-> data]

\* PinkQuery::InkMessage { payload, deposit: 0, transfer: 0, estimating: false }
InkMessage == [payload |-> "message", deposit |-> 0, transfer |-> 0, estimating |-> FALSE]

\* aead::generate_iv(&nonce): the IV is a function of the nonce alone.
GenerateIv(n) == [derived_from |-> n]
\* `let iv = [1; 12];` in query_test.
FixedIv == [fixed |-> "ones"]

\* EncryptedData::encrypt(&ecdh_key, &remote_pubkey, iv, &plain): the
\* ciphertext names the sender's public key, and only the holder of the
\* secret of `to` (or of `key`) can open it.
Encrypt(key, to, iv, plain) == [key |-> key, to |-> to, iv |-> iv, plain |-> plain]

\* CertificateBody { pubkey, ttl, config_bits } with the optional signature chain.
Certificate(pubkey, sig) == [pubkey |-> pubkey, signature |-> sig]
\* prpc::Signature { signed_by, signature: key.sign(what) }
Signature(cert, key, what) == [signed_by |-> cert, by |-> key, over |-> what]
\* prpc::ContractQueryRequest::new(encrypted_data, Some(signature))
Request(e, sig) == [encrypted |-> e, signature |-> sig]

\* sp_core::sr25519::Pair::generate(): the k-th pair generated within call c.
\* A generated pair equals no pair generated elsewhere, nor the signer's.
GenerateKey(c, k) == [call |-> c, idx |-> k]

\* ------------------------------------------------------------ environment
\* pr.get_info(()).await: the RPC fails, or returns PhactoryInfo whose
\* `system` is None, or whose ecdh_public_key is not hex, or not a valid
\* key, or is the worker's key.
InfoResponses == {"transport_error", "no_system", "bad_hex", "bad_key", "ok"}

\* ContractQueryResponse { nonce, result } as the worker (or whoever answers)
\* encoded it before encryption.
ResponseBodies(results) ==
    {[decodable |-> FALSE]} \cup [decodable : {TRUE}, nonce : Nonces, result : results]

\* Keys a reply can be encrypted to: the signer's, or the first pair
\* generated by any call.
ReplyKeys == {SignerKey} \cup {GenerateKey(c, 1) : c \in Calls}

\* pr.contract_query(request).await: the RPC fails, or the reply holds no
\* decodable EncryptedData, or it holds a ciphertext made for the holder of
\* key `to`.
QueryResponses(results) ==
    {[kind |-> "transport_error"], [kind |-> "bad_encrypted_data"]}
    \cup [kind : {"encrypted"}, to : ReplyKeys, body : ResponseBodies(results)]

\* Outcomes of the fallible local crypto steps (derive_ecdh_key, encrypt).
CryptoOutcomes == {"ok", "derive_failed", "encrypt_failed"}

\* Results a worker can put in a reply decoded as `Response`.
SessionResults == Payloads
\* Results a worker can put in a reply decoded as Result<Response, QueryError>.
RawResults == {Ok(p) : p \in Payloads} \cup {Err("QueryError")}

\* ------------------------------------------------------------------ Init
\* No config file looked at, nothing loaded from it.
NoCfg == [file |-> "none"]
NoMeta == [tag |-> "NotLoaded"]
NoEnc == [state |-> "unused"]

CallInit ==
    /\ api = [c \in Calls |-> "none"]
    /\ variant = [c \in Calls |-> "none"]
    /\ pc = [c \in Calls |-> "Idle"]
    /\ sess = [c \in Calls |-> ReadySession]
    /\ rpc = [c \in Calls |-> <<>>]
    /\ out = [c \in Calls |-> Pending]
    /\ sent = [c \in Calls |-> NoneV]
    /\ recv = [c \in Calls |-> NoneV]
    /\ info = [c \in Calls |-> NoneV]

Init ==
    /\ CallInit
    /\ cfg = NoCfg
    /\ meta = NoMeta
    /\ enc = NoEnc

\* A session (or the locals of a call) after it was consumed or dropped.
Dropped ==
    [nonce |-> NoneV, remote_pubkey |-> NoneV, signer |-> NoneV,
     state |-> [phase |-> "Dropped"]]

\* A return through a slot that all calls share.
Return_Shared(c, r) ==
    /\ out' = [d \in Calls |-> r]
    /\ pc' = [pc EXCEPT ![c] = "Returned"]
    /\ sess' = [sess EXCEPT ![c] = Dropped]

\* The call returns `r` to its caller; everything it owned is dropped.
Return(c, r) ==
    /\ out' = [out EXCEPT ![c] = r]
    /\ pc' = [pc EXCEPT ![c] = "Returned"]
    /\ sess' = [sess EXCEPT ![c] = Dropped]

\* EncryptedData::decrypt(&ecdh_key): succeeds only on a ciphertext made for
\* the public key of `ecdh_key`; then Decode::decode of the plaintext.
\* Returns the decoded ContractQueryResponse or the error of the step that failed.
OpenResponse(resp, ecdh_key) ==
    IF resp.kind = "transport_error" THEN Err("transport")
    ELSE IF resp.kind = "bad_encrypted_data" THEN Err("decode_encrypted_data")
    ELSE IF resp.to # ecdh_key THEN Err("Decrypt data failed")
    ELSE IF ~resp.body.decodable THEN Err("decode")
    ELSE Ok(resp.body)

\* CheckNonce without its comparison: the result is handed on unchecked.
CheckNonce_Unchecked(response, nonce) == Ok(response.result)

\* "check the nonce is match the one we sent": the result, or the error.
CheckNonce(response, nonce) ==
    IF response.nonce # nonce THEN Err("nonce mismatch") ELSE Ok(response.result)

\* What a call notes of a reply: the key it decrypted with and, when the
\* plaintext decoded, the nonce echoed in it.
Received(resp, ecdh_key) ==
    LET opened == OpenResponse(resp, ecdh_key) IN
    IF resp.kind # "encrypted" THEN NoneV
    ELSE Some([key |-> ecdh_key,
               echo |-> IF opened.tag = "Ok" THEN Some(opened.val.nonce) ELSE NoneV])

\* ------------------------------------------------- PhalaQuery<T> session
\* new() not looking at `system`: an uninitialized worker is taken as ready.
NewResult_SystemUnchecked(query, answer) ==
    IF answer = "transport_error" THEN Err("transport")
    ELSE IF answer = "bad_hex" THEN Err("hex")
    ELSE IF answer = "bad_key" THEN Err("pubkey")
    ELSE Ok([nonce |-> Some(Unwrap(query.nonce)),
             remote_pubkey |-> Some(WorkerKey),
             signer |-> Some(SignerKey),
             state |-> [phase |-> "InProcess",
                        req |-> Envelope(Unwrap(query.nonce), InkMessage)]])

\* What PhalaQuery::<Ready>::new returns for `query` when get_info answered
\* `answer`: the error, or the InProcess session.
NewResult(query, answer) ==
    IF answer = "transport_error" THEN Err("transport")
    ELSE IF answer = "no_system" THEN Err("Worker not initialized")
    ELSE IF answer = "bad_hex" THEN Err("hex")
    ELSE IF answer = "bad_key" THEN Err("pubkey")
    ELSE Ok([nonce |-> Some(Unwrap(query.nonce)),
             remote_pubkey |-> Some(WorkerKey),
             signer |-> Some(SignerKey),
             state |-> [phase |-> "InProcess",
                        req |-> Envelope(Unwrap(query.nonce), InkMessage)]])

\* 1. PhalaQuery::<Ready>::new(url, query, signer)
New(c) ==
    /\ pc[c] = "Idle"
    /\ sess[c].state.phase = "Ready"
    /\ api' = [api EXCEPT ![c] = "session"]
    /\ \E query \in Queries :
        /\ variant' = [variant EXCEPT ![c] = query.kind]
        /\ IF query.kind = "InkQuery"
           THEN /\ Return(c, Err("Only Phala queries are allowed"))
                /\ UNCHANGED <<rpc, info>>
           ELSE /\ rpc' = [rpc EXCEPT ![c] = Append(@, "get_info")]
                /\ \E answer \in InfoResponses :
                     LET r == NewResult(query, answer) IN
                     /\ info' = [info EXCEPT ![c] = Some(answer)]
                     /\ IF r.tag = "Err"
                        THEN Return(c, r)
                        ELSE /\ sess' = [sess EXCEPT ![c] = r.val]
                             /\ pc' = [pc EXCEPT ![c] = "Session"]
                             /\ UNCHANGED out
    /\ UNCHANGED <<sent, recv, cfg, meta, enc>>

\* encrypt_and_sign deriving the key-agreement key from the signer
\* (KeyExtension for PairSigner) instead of generating one.
SessionEcdhKey_FromSigner(c, s) == Unwrap(s.signer)

\* The key-agreement key encrypt_and_sign uses in call c for session `s`:
\* a pair generated on the spot.
SessionEcdhKey(c, s) == GenerateKey(c, 1)

\* encrypt_and_sign signing the encoded envelope instead of the ciphertext.
SessionRequest_SignsPlaintext(s, ecdh_key) ==
    LET encrypted_data == Encrypt(ecdh_key, Unwrap(s.remote_pubkey),
                                  GenerateIv(Unwrap(s.nonce)), s.state.req)
        data_cert == Certificate(Unwrap(s.signer), NoneV)
    IN Request(encrypted_data, Signature(data_cert, Unwrap(s.signer), s.state.req))

\* The signed request encrypt_and_sign builds from session `s` and `ecdh_key`:
\* one certificate holding the signer's public key, no parent signature,
\* and the signer's signature over the encoded ciphertext.
SessionRequest(s, ecdh_key) ==
    LET encrypted_data == Encrypt(ecdh_key, Unwrap(s.remote_pubkey),
                                  GenerateIv(Unwrap(s.nonce)), s.state.req)
        data_cert == Certificate(Unwrap(s.signer), NoneV)
    IN Request(encrypted_data, Signature(data_cert, Unwrap(s.signer), encrypted_data))

\* encrypt_and_sign moving the signer out of the session it returns.
EncryptedSession_TakesSigner(s, ecdh_key) ==
    [nonce |-> s.nonce, remote_pubkey |-> s.remote_pubkey, signer |-> NoneV,
     state |-> [phase |-> "Encrypted", ecdh_key |-> ecdh_key,
                req |-> SessionRequest(s, ecdh_key)]]

\* The Encrypted session encrypt_and_sign returns for session `s`.
EncryptedSession(s, ecdh_key) ==
    [nonce |-> s.nonce, remote_pubkey |-> s.remote_pubkey, signer |-> s.signer,
     state |-> [phase |-> "Encrypted", ecdh_key |-> ecdh_key,
                req |-> SessionRequest(s, ecdh_key)]]

\* 2. PhalaQuery::<InProcess>::encrypt_and_sign(self)
EncryptAndSign(c) ==
    /\ api[c] = "session"
    /\ sess[c].state.phase = "InProcess"
    /\ \E crypto \in CryptoOutcomes :
         IF crypto = "derive_failed" THEN Return(c, Err("Derive ecdh key failed"))
         ELSE IF crypto = "encrypt_failed" THEN Return(c, Err("Encrypt data failed"))
         ELSE /\ sess' = [sess EXCEPT ![c] =
                    EncryptedSession(sess[c], SessionEcdhKey(c, sess[c]))]
              /\ UNCHANGED <<out, pc>>
    /\ UNCHANGED <<api, variant, rpc, sent, recv, info, cfg, meta, enc>>

\* The key PhalaQuery::<Encrypted>::query decrypts the reply with.
SessionDecryptKey(s) == s.state.ecdh_key

\* What PhalaQuery::<Encrypted>::query makes of the reply `resp`.
QueryResult(s, resp) ==
    LET opened == OpenResponse(resp, SessionDecryptKey(s)) IN
    IF opened.tag = "Err" THEN opened
    ELSE CheckNonce(opened.val, Unwrap(s.nonce))

\* The session query leaves behind when the reply passed every check.
ComputedSession(result) ==
    [nonce |-> NoneV, remote_pubkey |-> NoneV, signer |-> NoneV,
     state |-> [phase |-> "Computed", result |-> result]]

\* query taking `&self`: a failed query leaves the Encrypted session usable.
FailedQuerySession_Borrowed(s, r) == s

\* What becomes of the session when query failed with `r`: `self` was moved
\* into the call, so nothing is left of it.
FailedQuerySession(s, r) == Dropped

\* 3. PhalaQuery::<Encrypted>::query(self)
SessionQuery(c) ==
    /\ api[c] = "session"
    /\ sess[c].state.phase = "Encrypted"
    /\ rpc' = [rpc EXCEPT ![c] = Append(@, "contract_query")]
    /\ sent' = [sent EXCEPT ![c] = Some(sess[c].state.req)]
    /\ \E resp \in QueryResponses(SessionResults) :
         LET r == QueryResult(sess[c], resp) IN
         /\ recv' = [recv EXCEPT ![c] = Received(resp, SessionDecryptKey(sess[c]))]
         /\ IF r.tag = "Err"
            THEN /\ out' = [out EXCEPT ![c] = r]
                 /\ sess' = [sess EXCEPT ![c] = FailedQuerySession(sess[c], r)]
                 /\ pc' = [pc EXCEPT ![c] =
                        IF sess'[c].state.phase = "Dropped" THEN "Returned" ELSE @]
            ELSE /\ sess' = [sess EXCEPT ![c] = ComputedSession(r.val)]
                 /\ UNCHANGED <<out, pc>>
    /\ UNCHANGED <<api, variant, info, cfg, meta, enc>>

\* 4. PhalaQuery::<Computed<Response>>::result(self)
SessionResult(c) ==
    /\ api[c] = "session"
    /\ sess[c].state.phase = "Computed"
    /\ Return(c, Ok(sess[c].state.result))
    /\ UNCHANGED <<api, variant, rpc, sent, recv, info, cfg, meta, enc>>


\* ------------------------------------------- contract_query and its users
\* The key-agreement key contract_query uses in call c: a pair generated on
\* the spot.
ContractQueryEcdhKey(c) == GenerateKey(c, 1)

\* The nonce contract_query puts in the envelope head and checks the reply
\* against.
ContractQueryNonce == FixedNonce

\* The signed request contract_query builds: certificate of `key`, and
\* `key`'s signature over the encoded ciphertext.
ContractQueryRequest(ecdh_key, key) ==
    LET encrypted_data == Encrypt(ecdh_key, WorkerKey, GenerateIv(ContractQueryNonce),
                                  Envelope(ContractQueryNonce, InkMessage))
        data_cert == Certificate(key, NoneV)
    IN Request(encrypted_data, Signature(data_cert, key, encrypted_data))

\* contract_query after the request was built: the nonce check on the reply.
ContractQueryResult(resp, ecdh_key) ==
    LET opened == OpenResponse(resp, ecdh_key) IN
    IF opened.tag = "Err" THEN opened
    ELSE CheckNonce(opened.val, ContractQueryNonce)

\* pink_query_raw: Result<Result<Vec<u8>, QueryError>>; the inner Ok is
\* unwrapped from Response::Payload.
PinkQueryRawResult(resp, ecdh_key) == ContractQueryResult(resp, ecdh_key)

\* The part of contract_query before the RPC: EcdhPublicKey::try_from, key
\* derivation, encryption.  Returns the error, or Ok(request).
ContractQueryPrepare(c, pubkey_ok, crypto) ==
    IF ~pubkey_ok THEN Err("pubkey")
    ELSE IF crypto = "derive_failed" THEN Err("Derive ecdh key failed")
    ELSE IF crypto = "encrypt_failed" THEN Err("Encrypt data failed")
    ELSE Ok(ContractQueryRequest(ContractQueryEcdhKey(c), SignerKey))

\* msg_spec lookup and decode of ContractMessageTranscoder::decode_return:
\* unknown name fails; no return type gives Unit; otherwise the return type
\* is decoded from the front of `data`, and what follows it is not looked at.
DecodeReturn(msg, data) ==
    IF msg = "unknown" THEN Err("Failed to find message spec")
    ELSE IF msg = "no_return_type" THEN Ok("Unit")
    ELSE IF data = "short" THEN Err("decode")
    ELSE Ok("Value")

\* Query::pink_query after pink_query_raw(...).await: `??`, then the
\* ContractExecResult decode, the dispatch error, the revert flag, decode_return.
PinkQueryValue(raw, msg) ==
    IF raw.tag = "Err" THEN raw
    ELSE IF raw.val.tag = "Err" THEN Err("QueryError")
    ELSE LET payload == raw.val.val IN
         IF payload.exec = "undecodable" THEN Err("decode ContractExecResult")
         ELSE IF payload.exec = "dispatch_error" THEN Err("DispatchError")
         ELSE IF payload.revert THEN Err("Contract execution reverted")
         ELSE LET v == DecodeReturn(msg, payload.data) IN
              IF v.tag = "Err" THEN Err("Failed to decode return value: " \o v.err) ELSE v

\* A conversion that keeps nothing of the error it is given.
FromAnyhow_Opaque(r) == IF r.tag = "Err" THEN Err("Generic") ELSE r

\* impl From<anyhow::Error> for ErrorVariant, as applied by Query::query to
\* the result of pink_query: Generic with the debug text.
FromAnyhow(r) == IF r.tag = "Err" THEN Err("Generic: " \o r.err) ELSE r

\* State change of one contract_query run on call c: at most one key pair
\* generated, at most one RPC.  `mode` says who called: "raw" hands the
\* result of pink_query_raw back, "dispatch" is Query::query's PhalaQuery arm.
ContractQueryRun(c, mode, msg) ==
    \E pubkey_ok \in BOOLEAN, crypto \in CryptoOutcomes :
        LET prep == ContractQueryPrepare(c, pubkey_ok, crypto)
            results == IF mode = "raw"
                       THEN RawResults
                       ELSE {Ok(p) : p \in ExecResults} \cup {Err("QueryError")}
            Finish(r) == IF mode = "raw" THEN r ELSE FromAnyhow(PinkQueryValue(r, msg))
        IN
        IF prep.tag = "Err"
        THEN /\ Return(c, Finish(prep))
             /\ UNCHANGED <<rpc, sent, recv>>
        ELSE /\ rpc' = [rpc EXCEPT ![c] = Append(@, "contract_query")]
             /\ sent' = [sent EXCEPT ![c] = Some(prep.val)]
             /\ \E resp \in QueryResponses(results) :
                  /\ recv' = [recv EXCEPT ![c] = Received(resp, ContractQueryEcdhKey(c))]
                  /\ Return(c, Finish(PinkQueryRawResult(resp, ContractQueryEcdhKey(c))))

\* pink_query_raw(worker_pubkey, url, id, call_data, key), called directly.
PinkQueryRaw(c) ==
    /\ pc[c] = "Idle"
    /\ api' = [api EXCEPT ![c] = "pink_query_raw"]
    /\ ContractQueryRun(c, "raw", "unknown")
    /\ UNCHANGED <<variant, info, cfg, meta, enc>>

\* What the caller of a confidential query gets for the reply `resp` when
\* the request went out with `nonce` under `ecdh_key`: from the session's
\* query, from pink_query_raw, or from Query::query's PhalaQuery arm.
ReplyOutcome(mode, nonce, ecdh_key, msg, resp) ==
    IF mode = "session"
    THEN QueryResult(EncryptedSession([nonce |-> Some(nonce), remote_pubkey |-> Some(WorkerKey),
                                       signer |-> Some(SignerKey),
                                       state |-> [phase |-> "InProcess",
                                                  req |-> Envelope(nonce, InkMessage)]],
                                      ecdh_key), resp)
    ELSE IF mode = "raw" THEN PinkQueryRawResult(resp, ecdh_key)
    ELSE FromAnyhow(PinkQueryValue(PinkQueryRawResult(resp, ecdh_key), msg))

\* The reply of a confidential query arrives and is handled.
HandleReply ==
    /\ enc.state = "input"
    /\ enc' = [enc EXCEPT !.state = "done",
                          !.out = ReplyOutcome(enc.mode, enc.nonce, enc.key, enc.msg, enc.resp)]
    /\ UNCHANGED <<callVars, cfg, meta>>

\* ------------------------------------------------------------ query_test
\* query_test up to the worker-info answer: the error, or the locals kept
\* across the await.
QueryTestInfo(answer) ==
    IF answer = "transport_error" THEN Err("transport")
    ELSE IF answer = "no_system" THEN Err("Worker not initialized")
    ELSE IF answer = "bad_hex" THEN Err("hex")
    ELSE IF answer = "bad_key" THEN Err("pubkey")
    ELSE Ok([nonce |-> Some(FixedNonce), remote_pubkey |-> Some(WorkerKey),
             signer |-> NoneV,
             state |-> [phase |-> "QueryTest", req |-> Envelope(FixedNonce, "data")]])

\* query_test, first half: build the envelope, fetch the worker info.
QueryTestStart(c) ==
    /\ pc[c] = "Idle"
    /\ api' = [api EXCEPT ![c] = "query_test"]
    /\ rpc' = [rpc EXCEPT ![c] = Append(@, "get_info")]
    /\ \E answer \in InfoResponses :
         LET r == QueryTestInfo(answer) IN
         /\ info' = [info EXCEPT ![c] = Some(answer)]
         /\ IF r.tag = "Err"
            THEN Return(c, r)
            ELSE /\ sess' = [sess EXCEPT ![c] = r.val]
                 /\ pc' = [pc EXCEPT ![c] = "QueryTestInfo"]
                 /\ UNCHANGED out
    /\ UNCHANGED <<variant, sent, recv, cfg, meta, enc>>

\* The signed request query_test builds: the root certificate holds the
\* generated root key, the data certificate holds the generated key_g and is
\* signed by the root key, and key_g signs the encoded ciphertext.
QueryTestRequest(l, ecdh_key, root_key, key_g) ==
    LET encrypted_data == Encrypt(ecdh_key, Unwrap(l.remote_pubkey), FixedIv, l.state.req)
        root_cert == Certificate(root_key, NoneV)
        data_cert_body == Certificate(key_g, NoneV)
        cert_signature == Signature(root_cert, root_key, data_cert_body)
        data_cert == Certificate(key_g, Some(cert_signature))
    IN Request(encrypted_data, Signature(data_cert, key_g, encrypted_data))

\* query_test after the reply: decrypt, decode, nonce check, payload.
QueryTestResult(resp, ecdh_key, nonce) ==
    LET opened == OpenResponse(resp, ecdh_key) IN
    IF opened.tag = "Err" THEN opened
    ELSE CheckNonce(opened.val, nonce)

\* query_test, second half: encrypt, sign, submit, check the reply.
QueryTestFinish(c) ==
    /\ api[c] = "query_test"
    /\ pc[c] = "QueryTestInfo"
    /\ \E crypto \in CryptoOutcomes :
         IF crypto = "derive_failed"
         THEN /\ Return(c, Err("Derive ecdh key failed"))
              /\ UNCHANGED <<rpc, sent, recv>>
         ELSE IF crypto = "encrypt_failed"
         THEN /\ Return(c, Err("Encrypt data failed"))
              /\ UNCHANGED <<rpc, sent, recv>>
         ELSE LET ecdh_key == GenerateKey(c, 1)
                  root_key == GenerateKey(c, 2)
                  key_g == GenerateKey(c, 3)
              IN /\ rpc' = [rpc EXCEPT ![c] = Append(@, "contract_query")]
                 /\ sent' = [sent EXCEPT ![c] =
                        Some(QueryTestRequest(sess[c], ecdh_key, root_key, key_g))]
                 /\ \E resp \in QueryResponses(SessionResults) :
                      /\ recv' = [recv EXCEPT ![c] = Received(resp, ecdh_key)]
                      /\ Return(c, QueryTestResult(resp, ecdh_key, Unwrap(sess[c].nonce)))
    /\ UNCHANGED <<api, variant, info, cfg, meta, enc>>


\* ------------------------------------------------ Query::query dispatcher
\* A resolution that reports a module error it could not look up as a
\* module error all the same.
FromDispatchError_Unresolved(error) ==
    IF error \in {"module_in_metadata", "module_not_in_metadata"}
    THEN Err("Module: pallet, error, docs")
    ELSE Err("Generic: DispatchError: debug text")

\* ErrorVariant::from_dispatch_error(err, &metadata), then `?` / Err(error):
\* a Module error found in the metadata gives ErrorVariant::Module; one not
\* found makes metadata.error() fail, and that error is what `?` converts;
\* any other dispatch error gives Generic with its debug text.
FromDispatchError(error) ==
    IF error = "module_in_metadata" THEN Err("Module: pallet, error, docs")
    ELSE IF error = "module_not_in_metadata" THEN Err("Generic: metadata lookup failed")
    ELSE Err("Generic: DispatchError: debug text")

\* Query::ink_query after call_dry_run: match result.result.
InkQueryValue(result, msg) ==
    IF result.exec = "undecodable" THEN Err("Generic: decode ContractExecResult")
    ELSE IF result.exec = "dispatch_error" THEN FromDispatchError(result.error)
    ELSE LET v == DecodeReturn(msg, result.data) IN
         IF v.tag = "Err"
         THEN Err("Generic: Failed to decode return value: " \o v.err)
         ELSE v

\* What state_call can come back with: the websocket cannot be built (no
\* request is made), the request fails, or bytes arrive.
StateCallResponses ==
    {[exec |-> "connect_error"], [exec |-> "transport_error"]} \cup ExecResults

\* The locals ink_query keeps across its awaits.
InkLocals(msg) ==
    [nonce |-> NoneV, remote_pubkey |-> NoneV, signer |-> Some(SignerKey),
     state |-> [phase |-> "InkQuery", msg |-> msg]]

\* The InkQuery arm of Query::query: ink_query up to the answer of its first
\* await, Client::from_url.
InkQueryStart(c, msg) ==
    /\ rpc' = [rpc EXCEPT ![c] = Append(@, "node_connect")]
    /\ \E connected \in BOOLEAN :
         IF connected
         THEN /\ pc' = [pc EXCEPT ![c] = "InkConnected"]
              /\ sess' = [sess EXCEPT ![c] = InkLocals(msg)]
              /\ UNCHANGED out
         ELSE Return(c, Err("Generic: subxt error"))
    /\ UNCHANGED <<sent, recv>>

\* The PhalaQuery arm of Query::query: pink_query to its end.
PinkQuery(c, msg) == ContractQueryRun(c, "dispatch", msg)

\* A dispatcher sending every query to the transparent node.
Backend_AlwaysInk(query) == "ink_query"

\* `match self` of Query::query: the function the variant is handed to.
Backend(query) == IF query.kind = "InkQuery" THEN "ink_query" ELSE "pink_query"

\* Query::query(url, signer, transcoder, msg_name): match self.
QueryDispatch(c) ==
    /\ pc[c] = "Idle"
    /\ api' = [api EXCEPT ![c] = "dispatch"]
    /\ \E query \in Queries, msg \in MsgKinds :
        /\ variant' = [variant EXCEPT ![c] = query.kind]
        /\ IF Backend(query) = "ink_query"
           THEN InkQueryStart(c, msg)
           ELSE PinkQuery(c, msg)
    /\ UNCHANGED <<info, cfg, meta, enc>>

\* A state_call that asks once more when its request failed.
StateCallFailed_Retry(c) ==
    IF Len(rpc[c]) < 2
    THEN UNCHANGED <<pc, sess, out>>
    ELSE Return(c, Err("Generic: transport"))

\* `client.request("state_call", params).await?` failing: the error goes up
\* through call_dry_run and ink_query to the caller.
StateCallFailed(c) == Return(c, Err("Generic: transport"))

\* ink_query from call_dry_run on: the state_call RPC and the match on its
\* result.
InkStateCall(c) ==
    /\ api[c] = "dispatch"
    /\ pc[c] = "InkConnected"
    /\ \E resp \in StateCallResponses :
         IF resp.exec = "connect_error"
         THEN /\ Return(c, Err("Generic: websocket connect"))
              /\ UNCHANGED rpc
         ELSE /\ rpc' = [rpc EXCEPT ![c] = Append(@, "state_call")]
              /\ IF resp.exec = "transport_error"
                 THEN StateCallFailed(c)
                 ELSE Return(c, InkQueryValue(resp, sess[c].state.msg))
    /\ UNCHANGED <<api, variant, sent, recv, info, cfg, meta, enc>>

\* ------------------------------------------------ configuration loading
\* What the config file can hold under "ink_contract_id": no such key, a
\* value that is not a string, an SS58 address, a string that is none.
InkIdFields == {"absent", "not_string", "valid", "invalid"}
\* Under "phala_contract_id": no such key, a value that is not a string, the
\* hex of 32 bytes, a string that is not hex, hex of fewer than 32 bytes.
PhalaIdFields == {"absent", "not_string", "valid", "not_hex", "too_short"}
\* Under "contract_path" and "url".
TextFields == {"absent", "not_string", "present"}

\* The file at CONFIG_PATH: missing, not TOML, or a table.
ConfigFiles ==
    {[file |-> "unreadable"], [file |-> "not_toml"]}
    \cup [file : {"toml"}, ink_contract_id : InkIdFields,
          phala_contract_id : PhalaIdFields,
          contract_path : TextFields, url : TextFields]

\* macro extract!: Some(string) for a key holding a string, None otherwise.
Extract(field) == IF field \in {"absent", "not_string"} THEN NoneV ELSE Some(field)

\* A loader that takes the direct id whenever it is there.
MatchId_PreferInk(ink_contract_id, phala_contract_id) ==
    IF IsSome(ink_contract_id) THEN Ok([id |-> "InkId", text |-> Unwrap(ink_contract_id)])
    ELSE IF IsSome(phala_contract_id)
    THEN Ok([id |-> "PhalaId", text |-> Unwrap(phala_contract_id)])
    ELSE Err("Failed to load Contract Id")

\* `let id = match (ink_contract_id, phala_contract_id) { ... }`
MatchId(ink_contract_id, phala_contract_id) ==
    IF IsSome(ink_contract_id) /\ ~IsSome(phala_contract_id)
    THEN Ok([id |-> "InkId", text |-> Unwrap(ink_contract_id)])
    ELSE IF ~IsSome(ink_contract_id) /\ IsSome(phala_contract_id)
    THEN Ok([id |-> "PhalaId", text |-> Unwrap(phala_contract_id)])
    ELSE Err("Failed to load Contract Id")

\* `match id { ... }`: AccountId::from_str, or decode_hex (which panics on
\* text that is not hex) and ContractId::decode.
ParseId(id) ==
    IF id.id = "InkId"
    THEN IF id.text = "valid"
         THEN Ok([ink_contract_id |-> Some("account_id"), phala_contract_id |-> NoneV])
         ELSE Err("AccountId::from_str")
    ELSE IF id.text = "not_hex" THEN [tag |-> "Panic", err |-> "Failed to parse hex_data"]
    ELSE IF id.text = "too_short" THEN Err("ContractId::decode")
    ELSE Ok([ink_contract_id |-> NoneV, phala_contract_id |-> Some("contract_id")])

\* InkMeta::from_config_file() on the file `f`.
FromConfigFileResult(f) ==
    IF f.file = "unreadable" THEN Err("read_to_string")
    ELSE IF f.file = "not_toml" THEN Err("toml::from_str")
    ELSE LET id == MatchId(Extract(f.ink_contract_id), Extract(f.phala_contract_id)) IN
         IF id.tag # "Ok" THEN id
         ELSE LET ids == ParseId(id.val) IN
              IF ids.tag # "Ok" THEN ids
              ELSE IF ~IsSome(Extract(f.contract_path)) THEN Err("Failed to load file")
              ELSE IF ~IsSome(Extract(f.url)) THEN Err("Failed to load url")
              ELSE Ok([file |-> "path", url |-> "url",
                       ink_contract_id |-> ids.val.ink_contract_id,
                       phala_contract_id |-> ids.val.phala_contract_id])

\* InkMeta::from_config_file(), called by itself.
FromConfigFile ==
    /\ meta = NoMeta
    /\ meta' = FromConfigFileResult(cfg)
    /\ UNCHANGED <<callVars, cfg, enc>>

\* SubstrateContract::from_account(suri, password): sign()?, then build()?
\* which loads the config file.
FromAccount ==
    /\ meta = NoMeta
    /\ \E suri_ok \in BOOLEAN :
         meta' = IF suri_ok THEN FromConfigFileResult(cfg) ELSE Err("Secret string error")
    /\ UNCHANGED <<callVars, cfg, enc>>

\* What call_message does before its first await: load the artifacts, build
\* the transcoder, encode the call.
CallMessagePrepare == {"artifacts_error", "transcoder_error", "encode_error", "ok"}

\* The locals call_message keeps across its awaits.
CallMessageLocals(msg) ==
    [nonce |-> NoneV, remote_pubkey |-> NoneV, signer |-> Some(SignerKey),
     state |-> [phase |-> "CallMessage", msg |-> msg]]

\* ContractInstance::call_message(msg_name, args) up to the answer of
\* Client::from_url.  An instance exists only if the configuration loaded.
CallMessage(c) ==
    /\ meta.tag = "Ok"
    /\ pc[c] = "Idle"
    /\ api' = [api EXCEPT ![c] = "call_message"]
    /\ \E prep \in CallMessagePrepare, msg \in MsgKinds, connected \in BOOLEAN :
         IF prep # "ok"
         THEN /\ Return(c, Err("Generic: " \o prep))
              /\ UNCHANGED rpc
         ELSE /\ rpc' = [rpc EXCEPT ![c] = Append(@, "node_connect")]
              /\ IF connected
                 THEN /\ pc' = [pc EXCEPT ![c] = "CallConnected"]
                      /\ sess' = [sess EXCEPT ![c] = CallMessageLocals(msg)]
                      /\ UNCHANGED out
                 ELSE Return(c, Err("Generic: subxt error"))
    /\ UNCHANGED <<variant, sent, recv, info, cfg, meta, enc>>

\* call_message after call_dry_run: match result.result.
CallMessageValue(result, msg) ==
    IF result.exec = "undecodable" THEN Err("Generic: decode ContractExecResult")
    ELSE IF result.exec = "dispatch_error" THEN FromDispatchError(result.error)
    ELSE LET v == DecodeReturn(msg, result.data) IN
         IF v.tag = "Err"
         THEN Err("Generic: Failed to decode return value: " \o v.err)
         ELSE Ok([is_success |-> TRUE, reverted |-> result.revert, data |-> v.val])

\* call_message from call_dry_run on.
CallMessageStateCall(c) ==
    /\ api[c] = "call_message"
    /\ pc[c] = "CallConnected"
    /\ \E resp \in StateCallResponses :
         IF resp.exec = "connect_error"
         THEN /\ Return(c, Err("Generic: websocket connect"))
              /\ UNCHANGED rpc
         ELSE /\ rpc' = [rpc EXCEPT ![c] = Append(@, "state_call")]
              /\ IF resp.exec = "transport_error"
                 THEN Return(c, Err("Generic: transport"))
                 ELSE Return(c, CallMessageValue(resp, sess[c].state.msg))
    /\ UNCHANGED <<api, variant, sent, recv, info, cfg, meta, enc>>

\* ------------------------------------------------- scon literal parser
\* A literal is a sequence of one-character strings.
Digits == {"0", "1", "2", "3", "4", "5", "6", "7", "8", "9"}
Alpha ==
    {"a", "b", "c", "d", "e", "f", "g", "h", "i", "j", "k", "l", "m",
     "n", "o", "p", "q", "r", "s", "t", "u", "v", "w", "x", "y", "z",
     "A", "B", "C", "D", "E", "F", "G", "H", "I", "J", "K", "L", "M",
     "N", "O", "P", "Q", "R", "S", "T", "U", "V", "W", "X", "Y", "Z"}
\* What multispace0 eats.
Spaces == {" ", "\t", "\r", "\n"}

\* IResult: the parser failed, or gave `v` and left `rest`.
Fail == [ok |-> FALSE]
Done(v, rest) == [ok |-> TRUE, value |-> v, rest |-> rest]

Drop(s, n) == SubSeq(s, n + 1, Len(s))
Take(s, n) == SubSeq(s, 1, n)
\* tag(t): the input starts with the characters of `t`.
StartsWith(s, t) == Len(s) >= Len(t) /\ SubSeq(s, 1, Len(t)) = t

\* Length of the longest prefix of `s` made of characters of `set`
\* (take_while, digit1, multispace0).
RECURSIVE PrefixLen(_, _)
PrefixLen(s, set) ==
    IF s = <<>> \/ Head(s) \notin set THEN 0 ELSE 1 + PrefixLen(Tail(s), set)

\* The number a run of decimal digits denotes (str::parse on the joined
\* digit groups).
DigitValue(ch) == CHOOSE n \in 0..9 : ToString(n) = ch
RECURSIVE DigitsValue(_, _)
DigitsValue(ds, acc) ==
    IF ds = <<>> THEN acc ELSE DigitsValue(Tail(ds), 10 * acc + DigitValue(Head(ds)))

\* u128::MAX, i128::MAX and the magnitude of i128::MIN in decimal digits.
U128Max ==
    <<"3", "4", "0", "2", "8", "2", "3", "6", "6", "9", "2", "0", "9", "3", "8", "4", "6", "3", "4", "6",
      "3", "3", "7", "4", "6", "0", "7", "4", "3", "1", "7", "6", "8", "2", "1", "1", "4", "5", "5">>
I128Max ==
    <<"1", "7", "0", "1", "4", "1", "1", "8", "3", "4", "6", "0", "4", "6", "9", "2", "3", "1", "7", "3",
      "1", "6", "8", "7", "3", "0", "3", "7", "1", "5", "8", "8", "4", "1", "0", "5", "7", "2", "7">>
I128MinMagnitude == [I128Max EXCEPT ![39] = "8"]

\* Digits without their leading zeros.
Canonical(ds) == Drop(ds, PrefixLen(ds, {"0"}))

\* a <= b for two numbers given by their digits without leading zeros.
RECURSIVE DigitsLeq(_, _)
DigitsLeq(a, b) ==
    IF Len(a) # Len(b) THEN Len(a) < Len(b)
    ELSE IF a = <<>> THEN TRUE
    ELSE IF Head(a) # Head(b) THEN DigitValue(Head(a)) < DigitValue(Head(b))
    ELSE DigitsLeq(Tail(a), Tail(b))

\* The parsed number: an integer of the model while it has at most nine
\* digits, beyond that the sign and the digits themselves.
Number(negative, ds) ==
    IF Len(Canonical(ds)) <= 9
    THEN (IF negative THEN 0 - DigitsValue(ds, 0) ELSE DigitsValue(ds, 0))
    ELSE (IF negative THEN <<"-">> ELSE <<>>) \o Canonical(ds)

\* separated_list0(char('_'), digit1): digit groups joined, and what is
\* left; a `_` not followed by a digit is left unconsumed.
RECURSIVE DigitGroups(_, _)
DigitGroups(s, first) ==
    LET sep == IF first THEN 0 ELSE 1
        n == IF ~first /\ (s = <<>> \/ Head(s) # "_") THEN 0
             ELSE PrefixLen(Drop(s, sep), Digits)
    IN IF n = 0 THEN [digits |-> <<>>, rest |-> s]
       ELSE LET more == DigitGroups(Drop(s, sep + n), FALSE) IN
            [digits |-> SubSeq(s, sep + 1, sep + n) \o more.digits, rest |-> more.rest]

\* fn scon_unit
SconUnit(s) ==
    IF StartsWith(s, <<"(", ")">>) THEN Done([t |-> "Unit"], Drop(s, 2)) ELSE Fail

\* fn scon_integer: a sign selects Value::Int, none Value::UInt; no digit at
\* all makes the str::parse fail.
SconInteger(s) ==
    LET signed == s # <<>> /\ Head(s) \in {"+", "-"}
        negative == signed /\ Head(s) = "-"
        groups == DigitGroups(IF signed THEN Tail(s) ELSE s, TRUE)
        limit == IF negative THEN I128MinMagnitude ELSE IF signed THEN I128Max ELSE U128Max
    IN IF groups.digits = <<>> \/ ~DigitsLeq(Canonical(groups.digits), limit) THEN Fail
       ELSE IF signed
       THEN Done([t |-> "Int", int |-> Number(negative, groups.digits)], groups.rest)
       ELSE Done([t |-> "UInt", uint |-> Number(FALSE, groups.digits)], groups.rest)

\* fn scon_bool
SconBool(s) ==
    IF StartsWith(s, <<"f", "a", "l", "s", "e">>)
    THEN Done([t |-> "Bool", bool |-> FALSE], Drop(s, 5))
    ELSE IF StartsWith(s, <<"t", "r", "u", "e">>)
    THEN Done([t |-> "Bool", bool |-> TRUE], Drop(s, 4))
    ELSE Fail

\* fn scon_char: any one character between single quotes.
SconChar(s) ==
    IF Len(s) >= 3 /\ s[1] = "'" /\ s[3] = "'"
    THEN Done([t |-> "Char", ch |-> s[2]], Drop(s, 3))
    ELSE Fail

\* An identifier grammar without the underscore behind the first character.
RustIdent_NoUnderscore(s) ==
    IF s = <<>> \/ Head(s) \notin Alpha \cup {"_"} THEN Fail
    ELSE LET n == 1 + PrefixLen(Tail(s), Alpha \cup Digits) IN Done(Take(s, n), Drop(s, n))

\* fn rust_ident
RustIdent(s) ==
    IF s = <<>> \/ Head(s) \notin Alpha \cup {"_"} THEN Fail
    ELSE LET n == PrefixLen(s, Alpha \cup Digits \cup {"_"}) IN Done(Take(s, n), Drop(s, n))

\* fn scon_unit_tuple: a bare identifier is a named tuple without fields.
SconUnitTuple(s) ==
    LET ident == RustIdent(s) IN
    IF ident.ok THEN Done([t |-> "Tuple", ident |-> ident.value], ident.rest) ELSE Fail

\* multispace0: the input behind its leading white space.
SkipWs(s) == Drop(s, PrefixLen(s, Spaces))

\* Hex::from_str on the digits behind 0x: hex::decode takes whole bytes only.
HexFromStr(digits) == IF Len(digits) % 2 = 0 THEN Ok(digits) ELSE Err("OddLength")

\* fn scon_hex: 0x, one or more hex digits, and Hex::from_str accepting them.
HexDigits == Digits \cup {"a", "b", "c", "d", "e", "f", "A", "B", "C", "D", "E", "F"}
SconHex(s) ==
    IF ~StartsWith(s, <<"0", "x">>) THEN Fail
    ELSE LET n == PrefixLen(Drop(s, 2), HexDigits) IN
         IF n = 0 \/ HexFromStr(SubSeq(s, 3, 2 + n)).tag = "Err" THEN Fail
         ELSE Done([t |-> "Hex", s |-> SubSeq(s, 3, 2 + n)], Drop(s, 2 + n))

\* many0(alt((nonescaped_string, escape_code))): how many characters of the
\* input make up the body of a string.
EscapeTags == {"\"", "\\", "/", "b", "f", "n", "r", "t", "u"}
RECURSIVE StringBody(_)
StringBody(s) ==
    IF s = <<>> THEN 0
    ELSE IF Head(s) = "\\"
    THEN IF Len(s) >= 2 /\ s[2] \in EscapeTags THEN 2 + StringBody(Drop(s, 2)) ELSE 0
    ELSE IF Head(s) \in {"\"", "\t", "\r", "\n"} THEN 0
    ELSE 1 + StringBody(Tail(s))

\* escape8259::unescape: every escape replaced by its character, \uXXXX by
\* the character of that code (written u followed by the four digits); an
\* escape without its four hex digits is an error.
RECURSIVE Unescape(_, _)
Unescape(raw, acc) ==
    IF raw = <<>> THEN Ok(acc)
    ELSE IF Head(raw) # "\\" THEN Unescape(Tail(raw), Append(acc, Head(raw)))
    ELSE IF raw[2] = "u"
    THEN IF PrefixLen(Drop(raw, 2), HexDigits) >= 4
         THEN Unescape(Drop(raw, 6), Append(acc, "u" \o raw[3] \o raw[4] \o raw[5] \o raw[6]))
         ELSE Err("Error unescaping string")
    ELSE Unescape(Drop(raw, 2),
                  Append(acc, CASE raw[2] = "b" -> "u0008" [] raw[2] = "f" -> "\f"
                                [] raw[2] = "n" -> "\n" [] raw[2] = "r" -> "\r"
                                [] raw[2] = "t" -> "\t" [] OTHER -> raw[2]))

\* fn scon_string: the body between two double quotes, unescaped.
SconString(s) ==
    IF s = <<>> \/ Head(s) # "\"" THEN Fail
    ELSE LET n == StringBody(Tail(s)) IN
         IF Len(s) < n + 2 \/ s[n + 2] # "\"" THEN Fail
         ELSE LET unescaped == Unescape(SubSeq(s, 2, n + 1), <<>>) IN
              IF unescaped.tag = "Err" THEN Fail
              ELSE Done([t |-> "String", string |-> unescaped.val], Drop(s, n + 2))

\* const MAX_UINT_LEN in fn scon_literal
MAX_UINT_LEN == 39

\* A scon_literal without the check of the length.
SconLiteral_Unverified(s) ==
    LET n == PrefixLen(s, Alpha \cup Digits) IN
    IF n > 0 THEN Done([t |-> "Literal", literal |-> Take(s, n)], Drop(s, n)) ELSE Fail

\* fn scon_literal: an alphanumeric run of more than MAX_UINT_LEN characters.
SconLiteral(s) ==
    LET n == PrefixLen(s, Alpha \cup Digits) IN
    IF n > MAX_UINT_LEN THEN Done([t |-> "Literal", literal |-> Take(s, n)], Drop(s, n))
    ELSE Fail

RECURSIVE SconValue(_)

\* separated_list0(ws(char(',')), scon_value) behind the first element: a
\* comma not followed by a value is left unconsumed.
RECURSIVE SeqMore(_, _)
SeqMore(items, s) ==
    LET t == SkipWs(s) IN
    IF t = <<>> \/ Head(t) # "," THEN [items |-> items, rest |-> s]
    ELSE LET e == SconValue(SkipWs(Tail(t))) IN
         IF e.ok THEN SeqMore(Append(items, e.value), e.rest)
         ELSE [items |-> items, rest |-> s]

\* fn scon_seq: [ values separated by commas, an optional last comma, ].
SconSeq(s) ==
    LET open == SkipWs(s) IN
    IF open = <<>> \/ Head(open) # "[" THEN Fail
    ELSE LET first == SconValue(SkipWs(Tail(open)))
             list == IF first.ok THEN SeqMore(<<first.value>>, first.rest)
                     ELSE [items |-> <<>>, rest |-> SkipWs(Tail(open))]
             comma == SkipWs(list.rest)
             close == SkipWs(IF comma # <<>> /\ Head(comma) = ","
                             THEN Tail(comma) ELSE list.rest)
         IN IF close # <<>> /\ Head(close) = "]"
            THEN Done([t |-> "Seq", elems |-> list.items], SkipWs(Tail(close)))
            ELSE Fail

\* The alt(...) of scon_value: the first alternative that succeeds.
SconAlt(s) ==
    IF SconUnit(s).ok THEN SconUnit(s)
    ELSE IF SconHex(s).ok THEN SconHex(s)
    ELSE IF SconSeq(s).ok THEN SconSeq(s)
    ELSE IF SconString(s).ok THEN SconString(s)
    ELSE IF SconLiteral(s).ok THEN SconLiteral(s)
    ELSE IF SconInteger(s).ok THEN SconInteger(s)
    ELSE IF SconBool(s).ok THEN SconBool(s)
    ELSE IF SconChar(s).ok THEN SconChar(s)
    ELSE SconUnitTuple(s)

\* fn scon_value: ws(alt(...)), white space eaten on both sides.
SconValue(s) ==
    LET r == SconAlt(SkipWs(s)) IN
    IF r.ok THEN Done(r.value, SkipWs(r.rest)) ELSE Fail

\* pub fn parse_value: the value, whatever input is left over.
ParseValue(input) ==
    LET r == SconValue(input) IN
    IF r.ok THEN Ok(r.value) ELSE Err("Error parsing Value")

\* Longest run of one character in a parsed text, counted from MAX_UINT_LEN.
MaxExtra == 1

\* The texts handed to parse_value: an opening, a run of one character of
\* a length around MAX_UINT_LEN or short, and an ending.
ParseInputs ==
    LET Openings == {<<>>, <<"-">>, <<"+">>, <<"0", "x">>, <<"\"">>, <<"[">>, <<" ">>,
                     <<"3">>, <<"!">>, <<"t", "r", "u", "e">>, <<"f", "a", "l", "s", "e">>}
        RunChars == {"0", "1", "9", "a", "g", "_"}
        RunLens == {0, 1, 2} \cup ((MAX_UINT_LEN - 2)..(MAX_UINT_LEN + MaxExtra))
        Endings == {<<>>, <<"\"">>, <<"]">>, <<"_", "1">>, <<",", "1", "]">>, <<",", "]">>,
                    <<" ", "?">>}
    IN {o \o [i \in 1..n |-> ch] \o e :
            o \in Openings, ch \in RunChars, n \in RunLens, e \in Endings}

\* One call of parse_value on the text held in `enc`.
Parse ==
    /\ enc.state = "input"
    /\ enc' = [state |-> "done", input |-> enc.input, out |-> ParseValue(enc.input)]
    /\ UNCHANGED <<callVars, cfg, meta>>

\* -------------------------------------------- ContractMessageTranscoder
\* Largest number of argument literals handed to encode.
MaxArgs == 2

\* A constructor or message spec of the metadata: label, 4-byte selector,
\* declared argument types.
MessageSpec(label, selector, args) == [label |-> label, selector |-> selector, args |-> args]

\* The constructors and the messages a metadata file can list.
CtorLists ==
    {<<>>,
     <<MessageSpec("new", <<155, 174, 157, 94>>, <<"u8">>)>>,
     <<MessageSpec("new", <<155, 174, 157, 94>>, <<>>),
       MessageSpec("get", <<97, 10, 22, 40>>, <<"bool">>)>>}
MsgLists ==
    {<<>>,
     <<MessageSpec("get", <<47, 134, 91, 217>>, <<>>),
       MessageSpec("set", <<230, 5, 33, 12>>, <<"bool", "u8">>)>>,
     <<MessageSpec("get", <<47, 134, 91, 217>>, <<"u8">>),
       MessageSpec("get", <<30, 92, 164, 86>>, <<>>)>>}
Names == {"new", "get", "set", "missing"}

\* Argument literals: well formed (1, 256, -1, (), true, " 7") and not
\* (a lone `-`, a lone `(`, the empty text).
Literals ==
    {<<"1">>, <<"2", "5", "6">>, <<"-", "1">>, <<"(", ")">>,
     <<"t", "r", "u", "e">>, <<" ", "7">>, <<"-">>, <<"(">>, <<>>}

RECURSIVE SeqsUpTo(_, _)
SeqsUpTo(set, n) ==
    IF n = 0 THEN {<<>>}
    ELSE LET shorter == SeqsUpTo(set, n - 1) IN
         shorter \cup {Append(q, x) : q \in shorter, x \in set}

\* Encoder::encode(type_id, value, output) for the primitive types bool and
\* u8: the value must be the matching variant and in range.
EncodeValue(ty, value) ==
    IF ty = "bool"
    THEN IF value.t = "Bool" THEN Ok(<<IF value.bool THEN 1 ELSE 0>>)
         ELSE Err("Expected a bool value")
    ELSE IF value.t = "UInt" /\ value.uint <= 255 THEN Ok(<<value.uint>>)
         ELSE Err("Expected a u8 value")

\* Iterator::find over the specs: the first one labelled `name`.
FindSpec(specs, name) ==
    LET found == {i \in DOMAIN specs : specs[i].label = name} IN
    IF found = {} THEN NoneV
    ELSE Some(specs[CHOOSE i \in found : \A j \in found : i <= j])

\* fn find_constructor_spec / fn find_message_spec
FindConstructorSpec(e, name) == FindSpec(e.constructors, name)
FindMessageSpec(e, name) == FindSpec(e.messages, name)

\* A resolution that lets the constructor win when both carry the name.
ResolveSpec_PreferConstructor(c, m, name) ==
    IF IsSome(c) THEN Ok(Unwrap(c))
    ELSE IF IsSome(m) THEN Ok(Unwrap(m))
    ELSE Err("No constructor or message with the name '" \o name \o "' found")

\* The match on (find_constructor_spec(name), find_message_spec(name)).
ResolveSpec(c, m, name) ==
    IF IsSome(c) /\ ~IsSome(m) THEN Ok(Unwrap(c))
    ELSE IF ~IsSome(c) /\ IsSome(m) THEN Ok(Unwrap(m))
    ELSE IF IsSome(c) /\ IsSome(m)
    THEN Err("Invalid metadata: both a constructor and message found with name '"
             \o name \o "'")
    ELSE Err("No constructor or message with the name '" \o name \o "' found")

\* An encode without the count comparison.
CheckArity_Skipped(spec_args, args) == Ok("checked")

\* `if spec_args.len() != args.len() { bail!(...) }`
CheckArity(spec_args, args) ==
    IF Len(spec_args) # Len(args)
    THEN Err("Invalid number of input arguments: expected " \o ToString(Len(spec_args))
             \o ", " \o ToString(Len(args)) \o " provided")
    ELSE Ok("checked")

\* What encode hands back, with the number of literals it gave to parse_value.
Encoded(result, parsed) == [result |-> result, parsed |-> parsed]

\* A loop that skips an argument it cannot parse or encode and hands back
\* what it has.
RECURSIVE EncodeArgs_SkipsFailed(_, _, _, _)
EncodeArgs_SkipsFailed(spec_args, args, encoded, parsed) ==
    IF spec_args = <<>> \/ args = <<>> THEN Encoded(Ok(encoded), parsed)
    ELSE LET value == ParseValue(Head(args))
             bytes == IF value.tag = "Err" THEN value
                      ELSE EncodeValue(Head(spec_args), value.val)
         IN EncodeArgs_SkipsFailed(Tail(spec_args), Tail(args),
                IF bytes.tag = "Err" THEN encoded ELSE encoded \o bytes.val, parsed + 1)

\* `for (spec, arg) in spec_args.iter().zip(args)`: parse, then encode onto
\* the buffer; the first failure ends the call.
RECURSIVE EncodeArgs(_, _, _, _)
EncodeArgs(spec_args, args, encoded, parsed) ==
    IF spec_args = <<>> \/ args = <<>> THEN Encoded(Ok(encoded), parsed)
    ELSE LET value == ParseValue(Head(args)) IN
         IF value.tag = "Err" THEN Encoded(value, parsed + 1)
         ELSE LET bytes == EncodeValue(Head(spec_args), value.val) IN
              IF bytes.tag = "Err" THEN Encoded(bytes, parsed + 1)
              ELSE EncodeArgs(Tail(spec_args), Tail(args), encoded \o bytes.val, parsed + 1)

\* ContractMessageTranscoder::encode(name, args) on the metadata in `e`.
EncodeResult(e, name, args) ==
    LET spec == ResolveSpec(FindConstructorSpec(e, name), FindMessageSpec(e, name), name) IN
    IF spec.tag = "Err" THEN Encoded(spec, 0)
    ELSE LET arity == CheckArity(spec.val.args, args) IN
         IF arity.tag = "Err" THEN Encoded(arity, 0)
         ELSE EncodeArgs(spec.val.args, args, spec.val.selector, 0)

\* One call of encode on the transcoder and input held in `enc`.
Encode ==
    /\ enc.state = "input"
    /\ enc' = [state |-> "done", constructors |-> enc.constructors,
               messages |-> enc.messages, name |-> enc.name, args |-> enc.args,
               out |-> EncodeResult(enc, enc.name, enc.args)]
    /\ UNCHANGED <<callVars, cfg, meta>>

\* ------------------------------------------------- decoding with metadata
\* Longest input handed to a decode function.
MaxData == 7
\* The byte values inputs are made of.
DataBytes == {0, 1, 2}

\* MessageParamSpec / EventParamSpec: label and type of a declared field.
ParamSpec(label, ty) == [label |-> label, ty |-> ty]
\* MessageSpec / ConstructorSpec with its fields and return type.
CallableSpec(label, selector, args, return_type) ==
    [label |-> label, selector |-> selector, args |-> args, return_type |-> return_type]
\* EventSpec: label and fields; its place in events() is its variant index.
EventSpec(label, args) == [label |-> label, args |-> args]

\* The metadata the decode functions are tried on.  In the first, selector
\* 1 0 0 0 belongs to constructor `new` and to message `flip`, with
\* different fields; 0 1 0 1 is a message only, 2 0 0 0 a constructor only.
DecodeMetadatas ==
    {[constructors |->
         <<CallableSpec("new", <<1, 0, 0, 0>>, <<ParamSpec("init", "bool")>>, NoneV),
           CallableSpec("default", <<2, 0, 0, 0>>, <<>>, NoneV)>>,
      messages |->
         <<CallableSpec("flip", <<1, 0, 0, 0>>,
                        <<ParamSpec("by", "u8"), ParamSpec("twice", "bool")>>, NoneV),
           CallableSpec("get", <<0, 1, 0, 1>>, <<>>, Some("bool"))>>,
      events |->
         <<EventSpec("Flipped", <<ParamSpec("value", "bool")>>),
           EventSpec("Cleared", <<>>)>>],
     [constructors |-> <<>>,
      messages |->
         <<CallableSpec("get", <<0, 0, 0, 0>>, <<ParamSpec("at", "u8")>>, Some("u8"))>>,
      events |->
         <<EventSpec("Set", <<ParamSpec("at", "u8"), ParamSpec("on", "bool")>>)>>]}
DecodeNames == {"get", "flip", "missing"}

\* IResult-like outcome of reading from the input cursor: the value and the
\* input left behind it.
Read(v, rest) == [tag |-> "Ok", val |-> v, rest |-> rest]

\* Decoder::decode(type_id, input) for the primitive types bool and u8: one
\* byte is consumed; no byte left, or a bool byte other than 0 and 1, is an
\* error.
DecodeValue(ty, data) ==
    IF data = <<>> THEN Err("Not enough data to fill buffer")
    ELSE IF ty = "bool"
    THEN IF Head(data) \in {0, 1}
         THEN Read([t |-> "Bool", bool |-> Head(data) = 1], Tail(data))
         ELSE Err("Invalid boolean representation")
    ELSE Read([t |-> "UInt", uint |-> Head(data)], Tail(data))

\* `data.read(&mut msg_selector)?`: the first four bytes, or an error when
\* there are fewer.
ReadSelector(data) ==
    IF Len(data) < 4 THEN Err("Not enough data to fill buffer")
    ELSE Read(Take(data, 4), Drop(data, 4))

\* `.find(|x| msg_selector == x.selector().to_bytes())`: the first spec of
\* the list with that selector.
FindSelector(specs, selector) ==
    LET found == {i \in DOMAIN specs : specs[i].selector = selector} IN
    IF found = {} THEN NoneV
    ELSE Some(specs[CHOOSE i \in found : \A j \in found : i <= j])

\* `for arg in spec.args()`: each field decoded from where the last one
\* ended, collected as (label, value) pairs; the first failure ends the call.
RECURSIVE DecodeFields(_, _, _)
DecodeFields(args, data, decoded) ==
    IF args = <<>> THEN Read(decoded, data)
    ELSE LET value == DecodeValue(Head(args).ty, data) IN
         IF value.tag = "Err" THEN value
         ELSE DecodeFields(Tail(args), value.rest,
                           Append(decoded, <<Head(args).label, value.val>>))

\* `args.iter().fold(format!("{label}"), ...)`: the label, then the name
\* of every decoded field (the quote marks around each are left out).
RECURSIVE ArgListString(_, _)
ArgListString(init, args) ==
    IF args = <<>> THEN init
    ELSE ArgListString(init \o ", " \o Head(args)[1], Tail(args))

\* A validate_length that is content with any remainder.
ValidateLength_Lenient(data, label, args) == Ok("empty")

\* fn validate_length: an error unless the buffer is empty.
ValidateLength(data, label, args) ==
    IF data # <<>>
    THEN Err("input length was longer than expected by " \o ToString(Len(data))
             \o " byte(s).\nManaged to decode " \o ArgListString(label, args)
             \o " but " \o ToString(data) \o " bytes were left unread")
    ELSE Ok("empty")

\* Value::Map(Map::new(Some(&name), args)): the named map of the fields.
MapValue(name, entries) == [t |-> "Map", ident |-> name, entries |-> entries]

\* The part the three decode functions share once the spec is chosen: the
\* fields, the length check, the map.
DecodeWithSpec(spec, data) ==
    LET fields == DecodeFields(spec.args, data, <<>>) IN
    IF fields.tag = "Err" THEN fields
    ELSE LET exhausted == ValidateLength(fields.rest, spec.label, fields.val) IN
         IF exhausted.tag = "Err" THEN exhausted
         ELSE Ok(MapValue(spec.label, fields.val))

\* <Compact<u32>>::decode(data): the two low bits of the first byte give
\* the width (1, 2, 4 or 1 + 4 bytes); a value that a shorter width could
\* hold is refused.  In the widest form the value is past 2^30 and is
\* handed on as its four bytes.
CompactU32(data) ==
    IF data = <<>> THEN Err("Not enough data to fill buffer")
    ELSE LET prefix == Head(data) IN
         IF prefix % 4 = 0 THEN Read(prefix \div 4, Tail(data))
         ELSE IF prefix % 4 = 1
         THEN IF Len(data) < 2 THEN Err("Not enough data to fill buffer")
              ELSE LET x == (prefix \div 4) + 64 * data[2] IN
                   IF x > 63 THEN Read(x, Drop(data, 2))
                   ELSE Err("out of range decoding Compact<u32>")
         ELSE IF prefix % 4 = 2
         THEN IF Len(data) < 4 THEN Err("Not enough data to fill buffer")
              ELSE LET x == (prefix \div 4) + 64 * data[2] + 16384 * data[3]
                            + 4194304 * data[4]
                   IN IF x > 16383 THEN Read(x, Drop(data, 4))
                      ELSE Err("out of range decoding Compact<u32>")
         ELSE IF prefix \div 4 # 0 THEN Err("unexpected prefix decoding Compact<u32>")
         ELSE IF Len(data) < 5 THEN Err("Not enough data to fill buffer")
         ELSE IF data[5] >= 64 THEN Read(SubSeq(data, 2, 5), Drop(data, 5))
         ELSE Err("out of range decoding Compact<u32>")

\* An event lookup that counts the variants from one.
EventAt_FromOne(events, variant_index) ==
    IF variant_index \in DOMAIN events THEN Some(events[variant_index]) ELSE NoneV

\* `.events().get(variant_index as usize)`
EventAt(events, variant_index) ==
    IF variant_index + 1 \in DOMAIN events THEN Some(events[variant_index + 1]) ELSE NoneV

\* fn decode_contract_event on the metadata `e`.
DecodeContractEventResult(e, data) ==
    LET len == CompactU32(data) IN
    IF len.tag = "Err" THEN len
    ELSE IF len.rest = <<>> THEN Err("Not enough data to fill buffer")
    ELSE LET variant_index == Head(len.rest)
             event_spec == EventAt(e.events, variant_index)
         IN IF ~IsSome(event_spec)
            THEN Err("Event variant " \o ToString(variant_index)
                     \o " not found in contract metadata")
            ELSE DecodeWithSpec(Unwrap(event_spec), Tail(len.rest))

\* A lookup of message selectors that also looks among the constructors.
MessageSpecs_WithConstructors(e) == e.constructors \o e.messages

\* fn messages / fn constructors: the list a selector is looked up in.
MessageSpecs(e) == e.messages
ConstructorSpecs(e) == e.constructors

\* fn decode_contract_message on the metadata `e`.
DecodeContractMessageResult(e, data) ==
    LET msg_selector == ReadSelector(data) IN
    IF msg_selector.tag = "Err" THEN msg_selector
    ELSE LET msg_spec == FindSelector(MessageSpecs(e), msg_selector.val) IN
         IF ~IsSome(msg_spec)
         THEN Err("Message with selector " \o ToString(msg_selector.val)
                  \o " not found in contract metadata")
         ELSE DecodeWithSpec(Unwrap(msg_spec), msg_selector.rest)

\* fn decode_contract_constructor on the metadata `e`.
DecodeContractConstructorResult(e, data) ==
    LET msg_selector == ReadSelector(data) IN
    IF msg_selector.tag = "Err" THEN msg_selector
    ELSE LET msg_spec == FindSelector(ConstructorSpecs(e), msg_selector.val) IN
         IF ~IsSome(msg_spec)
         THEN Err("Constructor with selector " \o ToString(msg_selector.val)
                  \o " not found in contract metadata")
         ELSE DecodeWithSpec(Unwrap(msg_spec), msg_selector.rest)

\* A decode_return that takes the return bytes to follow a selector.
ReturnBytes_AfterSelector(data) == Drop(data, 4)

\* The bytes decode_return hands to the decoder: all of `data`.
ReturnBytes(data) == data

\* fn decode_return on the metadata `e`.
DecodeReturnResult(e, name, data) ==
    LET msg_spec == FindMessageSpec(e, name) IN
    IF ~IsSome(msg_spec)
    THEN Err("Failed to find message spec with name '" \o name \o "'")
    ELSE IF IsSome(Unwrap(msg_spec).return_type)
    THEN LET value == DecodeValue(Unwrap(Unwrap(msg_spec).return_type), ReturnBytes(data)) IN
         IF value.tag = "Err" THEN value ELSE Ok(value.val)
    ELSE Ok([t |-> "Unit"])

\* The transcoder call recorded in `enc` once it has returned `result`.
Decoded(op, result) ==
    [state |-> "done", op |-> op, metadata |-> enc.metadata, name |-> enc.name,
     data |-> enc.data, out |-> result]

\* One call of each decode function on the metadata and bytes held in `enc`.
DecodeContractMessage ==
    /\ enc.state = "input"
    /\ enc' = Decoded("message", DecodeContractMessageResult(enc.metadata, enc.data))
    /\ UNCHANGED <<callVars, cfg, meta>>

DecodeContractConstructor ==
    /\ enc.state = "input"
    /\ enc' = Decoded("constructor", DecodeContractConstructorResult(enc.metadata, enc.data))
    /\ UNCHANGED <<callVars, cfg, meta>>

DecodeContractEvent ==
    /\ enc.state = "input"
    /\ enc' = Decoded("event", DecodeContractEventResult(enc.metadata, enc.data))
    /\ UNCHANGED <<callVars, cfg, meta>>

DecodeReturnCall ==
    /\ enc.state = "input"
    /\ enc' = Decoded("return", DecodeReturnResult(enc.metadata, enc.name, enc.data))
    /\ UNCHANGED <<callVars, cfg, meta>>

\* ---- the type-directed codec behind Transcoder::encode / ::decode ----

\* Bytes of the byte-array types AccountId32 and H256 (32 in the program).
HashLen == 2
CodecTypes == {"bool", "u8", "AccountId", "Hash"}

\* with_default_custom_type_transcoders: AccountId32 is registered as
\* encoder and decoder, H256 as decoder only.
CustomEncoders == {"AccountId"}
CustomDecoders == {"AccountId", "Hash"}

\* The string-based rendering of a byte-array type by its override, and its
\* structural value: the tuple of its one unnamed field, a sequence of u8.
Rendered(ty, bytes) == [t |-> IF ty = "Hash" THEN "Hex" ELSE "Literal", of |-> bytes]
Structural(bytes) == [t |-> "Tuple", values |-> <<[t |-> "Seq", elems |-> bytes]>>]

\* The values handed to the codec.
CodecValues ==
    {[t |-> "Bool", bool |-> b] : b \in BOOLEAN}
    \cup {[t |-> "UInt", uint |-> n] : n \in {0, 1, 255, 256}}
    \cup {Rendered(ty, b) : ty \in {"AccountId", "Hash"}, b \in SeqsUpTo(DataBytes, HashLen)}
    \cup {Structural(b) : b \in SeqsUpTo(DataBytes, HashLen)}

\* Encoder::encode(type_id, value, output): the override registered for the
\* type if there is one, else by the structure of the type.
CodecEncode(ty, value) ==
    IF ty \in CustomEncoders
    THEN IF value.t = "Literal" /\ Len(value.of) = HashLen THEN Ok(value.of)
         ELSE Err("Expected a string or a literal")
    ELSE IF ty \in {"bool", "u8"} THEN EncodeValue(ty, value)
    ELSE IF value.t = "Tuple" /\ Len(value.values[1].elems) = HashLen
    THEN Ok(value.values[1].elems)
    ELSE Err("Expected a Map or a Tuple or a String value for a composite data type")

\* Decoder::decode(type_id, input): the override registered for the type if
\* there is one, else by the structure of the type.
CodecDecode(ty, data) ==
    IF ty \in {"bool", "u8"} THEN DecodeValue(ty, data)
    ELSE IF Len(data) < HashLen THEN Err("Not enough data to fill buffer")
    ELSE IF ty \in CustomDecoders
    THEN Read(Rendered(ty, Take(data, HashLen)), Drop(data, HashLen))
    ELSE Read(Structural(Take(data, HashLen)), Drop(data, HashLen))

\* Transcoder::encode of the value held in `enc`, the bytes landing in front
\* of whatever the output buffer held.
TranscoderEncode ==
    /\ enc.state = "input"
    /\ enc' = [enc EXCEPT !.state = "encoded", !.out = CodecEncode(enc.ty, enc.value)]
    /\ UNCHANGED <<callVars, cfg, meta>>

\* Transcoder::decode of the bytes just encoded, followed by `enc.after`.
TranscoderDecode ==
    /\ enc.state = "encoded"
    /\ enc.out.tag = "Ok"
    /\ enc' = [enc EXCEPT !.state = "decoded",
                          !.back = CodecDecode(enc.ty, enc.out.val \o enc.after)]
    /\ UNCHANGED <<callVars, cfg, meta>>

\* ------------------------------------------------------ specifications
\* The confidential API: sessions, pink_query_raw and query_test, MaxCalls
\* of them running concurrently.
Next ==
    \E c \in Calls :
        \/ New(c)
        \/ EncryptAndSign(c)
        \/ SessionQuery(c)
        \/ SessionResult(c)
        \/ PinkQueryRaw(c)
        \/ QueryTestStart(c)
        \/ QueryTestFinish(c)

Spec == Init /\ [][Next]_vars

\* Every entry point, the dispatcher included, MaxQueries calls running
\* concurrently.
QueryCalls == {c \in Calls : c <= MaxQueries}

QueryNext ==
    \E c \in QueryCalls :
        \/ New(c)
        \/ EncryptAndSign(c)
        \/ SessionQuery(c)
        \/ SessionResult(c)
        \/ PinkQueryRaw(c)
        \/ QueryTestStart(c)
        \/ QueryTestFinish(c)
        \/ QueryDispatch(c)
        \/ InkStateCall(c)

QuerySpec == Init /\ [][QueryNext]_vars

\* Configuration loading: any config file, loaded directly or through
\* from_account, and the calls of the instance built from it.
ConfigInit ==
    /\ CallInit
    /\ cfg \in ConfigFiles
    /\ meta = NoMeta
    /\ enc = NoEnc

ConfigNext ==
    \/ FromConfigFile
    \/ FromAccount
    \/ \E c \in QueryCalls : CallMessage(c) \/ CallMessageStateCall(c)

ConfigSpec == ConfigInit /\ [][ConfigNext]_vars

\* The message transcoder: any metadata, name and argument literals, and
\* one call of encode on them.
EncodeInit ==
    /\ CallInit
    /\ cfg = NoCfg
    /\ meta = NoMeta
    /\ enc \in [state : {"input"}, constructors : CtorLists, messages : MsgLists,
                name : Names, args : SeqsUpTo(Literals, MaxArgs)]

EncodeNext == Encode

EncodeSpec == EncodeInit /\ [][EncodeNext]_vars

\* The decode functions of the transcoder: any metadata, name and input
\* bytes, and one call on them.
DecodeInit ==
    /\ CallInit
    /\ cfg = NoCfg
    /\ meta = NoMeta
    /\ enc \in [state : {"input"}, metadata : DecodeMetadatas, name : DecodeNames,
                data : SeqsUpTo(DataBytes, MaxData)]

DecodeNext ==
    \/ DecodeContractMessage
    \/ DecodeContractConstructor
    \/ DecodeContractEvent
    \/ DecodeReturnCall

DecodeSpec == DecodeInit /\ [][DecodeNext]_vars

\* The codec: any type and value, encoded and decoded back with any bytes
\* behind the encoding.
CodecInit ==
    /\ CallInit
    /\ cfg = NoCfg
    /\ meta = NoMeta
    /\ enc \in [state : {"input"}, ty : CodecTypes, value : CodecValues,
                after : SeqsUpTo(DataBytes, 1), out : {Pending}, back : {Pending}]

CodecNext == TranscoderEncode \/ TranscoderDecode

CodecSpec == CodecInit /\ [][CodecNext]_vars

\* The literal parser: any text, and one call of parse_value on it.
ParseInit ==
    /\ CallInit
    /\ cfg = NoCfg
    /\ meta = NoMeta
    /\ enc \in [state : {"input"}, input : ParseInputs]

ParseNext == Parse

ParseSpec == ParseInit /\ [][ParseNext]_vars

\* The handling of a reply: a request sent with a nonce under the key of
\* call 1, any reply to it, and its handling by each confidential entry point.
ReplyInit ==
    /\ CallInit
    /\ cfg = NoCfg
    /\ meta = NoMeta
    /\ enc \in [state : {"input"}, mode : {"session"}, nonce : Nonces,
                key : {GenerateKey(1, 1)}, msg : {"unknown"},
                resp : QueryResponses(SessionResults), out : {Pending}]
          \cup [state : {"input"}, mode : {"raw"}, nonce : {ContractQueryNonce},
                 key : {GenerateKey(1, 1)}, msg : {"unknown"},
                 resp : QueryResponses(RawResults), out : {Pending}]
          \cup [state : {"input"}, mode : {"dispatch"}, nonce : {ContractQueryNonce},
                 key : {GenerateKey(1, 1)}, msg : MsgKinds,
                 resp : QueryResponses({Ok(p) : p \in ExecResults} \cup {Err("QueryError")}),
                 out : {Pending}]

ReplyNext == HandleReply

ReplySpec == ReplyInit /\ [][ReplyNext]_vars

\* QuerySpec with the futures of ink_query and query_test driven on after
\* their first await, as block_on and the caller's executor do.
QueryFairSpec ==
    /\ QuerySpec
    /\ \A c \in QueryCalls : WF_vars(InkStateCall(c)) /\ WF_vars(QueryTestFinish(c))

\* ------------------------------------------------ one confidential call
\* The signed request the entry point `path` submits when its caller
\* supplied `nonce` and the pair generated for the call is `ecdh_key`.
\* pink_query hands the nonce of its Query on, contract_query builds the
\* request from its own; query_test takes no nonce.
PathRequest(path, nonce, ecdh_key) ==
    IF path = "session"
    THEN SessionRequest(NewResult(PhalaQueryV(Unwrap(nonce)), "ok").val, ecdh_key)
    ELSE IF path = "dispatch" THEN ContractQueryRequest(ecdh_key, SignerKey)
    ELSE QueryTestRequest(QueryTestInfo("ok").val, ecdh_key,
                          GenerateKey(1, 2), GenerateKey(1, 3))

\* What the entry point `path` returns for the reply `resp` to that request.
PathOutcome(path, nonce, ecdh_key, resp) ==
    IF path = "session" THEN ReplyOutcome("session", Unwrap(nonce), ecdh_key, "unknown", resp)
    ELSE IF path = "dispatch" THEN ReplyOutcome("dispatch", nonce, ecdh_key, "unknown", resp)
    ELSE QueryTestResult(resp, ecdh_key, Unwrap(QueryTestInfo("ok").val.nonce))

\* One confidential call from the caller's nonce to its outcome, worker
\* information and local crypto succeeding.
ConfidentialCall ==
    /\ enc.state = "input"
    /\ enc' = [enc EXCEPT !.state = "done",
                          !.req = Some(PathRequest(enc.path, enc.nonce, enc.key)),
                          !.out = PathOutcome(enc.path, enc.nonce, enc.key, enc.resp)]
    /\ UNCHANGED <<callVars, cfg, meta>>

\* Any caller nonce on the paths that take one, and any reply.
NonceInit ==
    /\ CallInit
    /\ cfg = NoCfg
    /\ meta = NoMeta
    /\ enc \in [state : {"input"}, path : {"session"}, nonce : {Some(n) : n \in Nonces},
                key : {GenerateKey(1, 1)}, resp : QueryResponses(SessionResults),
                req : {NoneV}, out : {Pending}]
          \cup [state : {"input"}, path : {"dispatch"}, nonce : {Some(n) : n \in Nonces},
                 key : {GenerateKey(1, 1)},
                 resp : QueryResponses({Ok(p) : p \in ExecResults} \cup {Err("QueryError")}),
                 req : {NoneV}, out : {Pending}]
          \cup [state : {"input"}, path : {"query_test"}, nonce : {NoneV},
                 key : {GenerateKey(1, 1)}, resp : QueryResponses(SessionResults),
                 req : {NoneV}, out : {Pending}]

NonceNext == ConfidentialCall

NonceSpec == NonceInit /\ [][NonceNext]_vars

\* ------------------------------------------------ the dry-run result
\* What Query::query returns once the dry-run result `result` has arrived:
\* from ink_query, from state_call's decode on; from pink_query, with the
\* result as the payload of a reply that passed every check.
DryRunOutcome(path, result, msg) ==
    IF path = "ink_query" THEN InkQueryValue(result, msg)
    ELSE FromAnyhow(PinkQueryValue(Ok(Ok(result)), msg))

\* The dry-run result of a query arrives and is handled.
HandleDryRun ==
    /\ enc.state = "input"
    /\ enc' = [enc EXCEPT !.state = "done",
                          !.out = DryRunOutcome(enc.path, enc.result, enc.msg)]
    /\ UNCHANGED <<callVars, cfg, meta>>

\* Any dry-run result, on either path, for any kind of message name.
DryRunInit ==
    /\ CallInit
    /\ cfg = NoCfg
    /\ meta = NoMeta
    /\ enc \in [state : {"input"}, path : {"ink_query", "pink_query"},
                result : ExecResults, msg : MsgKinds, out : {Pending}]

DryRunNext == HandleDryRun

DryRunSpec == DryRunInit /\ [][DryRunNext]_vars

\* ------------------------------------------------------ TranscoderBuilder
\* Largest number of register_* calls made on one builder.
MaxRegistrations == 3

\* The Rust types an override is registered for, by path; the registry
\* gives the i-th of them the type id i when the contract uses it.
OverrideTypes == <<"AccountId32", "H256", "Balance">>
\* The custom transcoders of env_types.
Coders == {"AccountId", "Hash"}

\* HashMap::insert(key, value) on a map held as a function: the new map.
Insert(map, key, value) ==
    [k \in DOMAIN map \cup {key} |-> IF k = key THEN value ELSE map[k]]

\* TranscoderBuilder::new(registry): types_by_path of the registry whose
\* types are those of OverrideTypes with an id in `ids`; no encoder, no decoder.
NewBuilder(ids) ==
    [state |-> "building",
     types_by_path |-> [p \in {OverrideTypes[i] : i \in ids} |->
                            CHOOSE i \in ids : OverrideTypes[i] = p],
     encoders |-> <<>>, decoders |-> <<>>, calls |-> 0, last |-> NoneV]

\* A builder whose insert replaces what the type id held, with no panic.
RegisterCustomTypeEncoder_Overwrites(this, T, encoder) ==
    IF T \in DOMAIN this.types_by_path
    THEN [this EXCEPT !.encoders = Insert(@, this.types_by_path[T], encoder)]
    ELSE this

\* register_custom_type_encoder::<T, U>(self, encoder): the builder handed
\* back, or the builder lost to the panic.
RegisterCustomTypeEncoder(this, T, encoder) ==
    IF T \in DOMAIN this.types_by_path
    THEN LET type_id == this.types_by_path[T] IN
         IF type_id \in DOMAIN this.encoders
         THEN [this EXCEPT !.state = "panicked",
                           !.encoders = Insert(@, type_id, encoder)]
         ELSE [this EXCEPT !.encoders = Insert(@, type_id, encoder)]
    ELSE this

\* register_custom_type_decoder::<T, U>(self, encoder)
RegisterCustomTypeDecoder(this, T, decoder) ==
    IF T \in DOMAIN this.types_by_path
    THEN LET type_id == this.types_by_path[T] IN
         IF type_id \in DOMAIN this.decoders
         THEN [this EXCEPT !.state = "panicked",
                           !.decoders = Insert(@, type_id, decoder)]
         ELSE [this EXCEPT !.decoders = Insert(@, type_id, decoder)]
    ELSE this

\* register_custom_type_transcoder::<T, U>(self, transcoder): the encoder,
\* then the decoder unless the first call panicked.
RegisterCustomTypeTranscoder(this, T, transcoder) ==
    LET first == RegisterCustomTypeEncoder(this, T, transcoder) IN
    IF first.state = "panicked" THEN first
    ELSE RegisterCustomTypeDecoder(first, T, transcoder)

\* done(self): the Transcoder holding the builder's encoders and decoders.
BuilderDone(this) == [this EXCEPT !.state = "built"]

\* One register_* call on the builder held in `enc`.
Register(op, T, coder) ==
    /\ enc.state = "building"
    /\ enc.calls < MaxRegistrations
    /\ LET this == [enc EXCEPT !.calls = @ + 1,
                               !.last = Some([op |-> op, type |-> T, coder |-> coder])]
       IN enc' = IF op = "encoder" THEN RegisterCustomTypeEncoder(this, T, coder)
                 ELSE IF op = "decoder" THEN RegisterCustomTypeDecoder(this, T, coder)
                 ELSE RegisterCustomTypeTranscoder(this, T, coder)
    /\ UNCHANGED <<callVars, cfg, meta>>

RegisterEncoder == \E i \in DOMAIN OverrideTypes, coder \in Coders :
                       Register("encoder", OverrideTypes[i], coder)
RegisterDecoder == \E i \in DOMAIN OverrideTypes, coder \in Coders :
                       Register("decoder", OverrideTypes[i], coder)
RegisterTranscoder == \E i \in DOMAIN OverrideTypes, coder \in Coders :
                          Register("transcoder", OverrideTypes[i], coder)

\* done() on the builder held in `enc`.
Done_ ==
    /\ enc.state = "building"
    /\ enc' = BuilderDone(enc)
    /\ UNCHANGED <<callVars, cfg, meta>>

\* with_default_custom_type_transcoders(self) on a builder: AccountId for
\* AccountId32 both ways, Hash for H256 as decoder only.
WithDefaultCustomTypeTranscoders ==
    /\ enc.state = "building"
    /\ enc.calls + 2 <= MaxRegistrations
    /\ LET this == [enc EXCEPT !.calls = @ + 2, !.last = NoneV]
           first == RegisterCustomTypeTranscoder(this, "AccountId32", "AccountId")
       IN enc' = IF first.state = "panicked" THEN first
                 ELSE RegisterCustomTypeDecoder(first, "H256", "Hash")
    /\ UNCHANGED <<callVars, cfg, meta>>

\* A builder fresh from TranscoderBuilder::new over any registry.
BuilderInit ==
    /\ CallInit
    /\ cfg = NoCfg
    /\ meta = NoMeta
    /\ enc \in {NewBuilder(ids) : ids \in SUBSET DOMAIN OverrideTypes}

BuilderNext ==
    \/ RegisterEncoder
    \/ RegisterDecoder
    \/ RegisterTranscoder
    \/ WithDefaultCustomTypeTranscoders
    \/ Done_

BuilderSpec == BuilderInit /\ [][BuilderNext]_vars

\* ================================================================ claims
\* The nonce in the envelope head of the request call c submitted.
SentNonce(c) == Unwrap(sent[c]).encrypted.plain.nonce
\* The key-agreement key the request of call c was encrypted with.
SentKey(c) == Unwrap(sent[c]).encrypted.key
\* The session phase of call c.
Phase(c) == sess[c].state.phase
\* Call c holds, or was handed, a result payload.
Exposed(c) == out[c].tag = "Ok" \/ Phase(c) = "Computed"
\* The reply to call c decoded and echoed a nonce other than the one sent.
EchoedOther(c) ==
    /\ IsSome(recv[c])
    /\ IsSome(Unwrap(recv[c]).echo)
    /\ Unwrap(Unwrap(recv[c]).echo) # SentNonce(c)

\* C1: a confidential call (session query + result(), contract_query via
\* pink_query_raw, query_test) holds or returns a result only if the reply
\* decoded and echoed the nonce that was sent; a reply echoing another nonce
\* ends the call in an error with nothing of the session left.
C1_ResultOnlyOnMatchingNonce ==
    \A c \in Calls :
        /\ Exposed(c) =>
              /\ IsSome(sent[c])
              /\ IsSome(recv[c])
              /\ Unwrap(recv[c]).echo = Some(SentNonce(c))
        /\ EchoedOther(c) =>
              /\ out[c].tag = "Err"
              /\ out[c].err = "nonce mismatch"
              /\ Phase(c) = "Dropped"

\* A session got a reply echoing a foreign nonce while another call was
\* handed its payload.
C1_Witness ==
    \E c, d \in Calls :
        /\ api[c] = "session" /\ EchoedOther(c)
        /\ api[d] \in {"session", "pink_query_raw", "query_test"} /\ out[d].tag = "Ok"

\* The phase changes a session may make: one step forward, or dropped.
PhaseOrder ==
    {<<"Ready", "InProcess">>, <<"InProcess", "Encrypted">>,
     <<"Encrypted", "Computed">>, <<"Computed", "Dropped">>,
     <<"Ready", "Dropped">>, <<"InProcess", "Dropped">>, <<"Encrypted", "Dropped">>}

\* C2: every operation on a session moves it exactly one phase forward in
\* the order Ready, InProcess, Encrypted, Computed, or consumes it; no
\* operation leaves a session in its phase, moves it back or skips a phase,
\* so no operation can be applied twice; a session is InProcess or Encrypted
\* only after the worker info arrived and before anything was submitted,
\* and Computed or read out only after exactly one submission.
C2_PhasesInOrder ==
    /\ [][\A c \in Calls :
            (/\ api'[c] = "session"
             /\ <<sess[c], rpc[c], out[c]>> # <<sess'[c], rpc'[c], out'[c]>>)
            => <<Phase(c), sess'[c].state.phase>> \in PhaseOrder]_vars
    /\ [](\A c \in Calls :
            api[c] = "session" =>
                /\ Phase(c) \in {"InProcess", "Encrypted"} =>
                      rpc[c] = <<"get_info">> /\ info[c] = Some("ok") /\ sent[c] = NoneV
                /\ Phase(c) = "Computed" =>
                      rpc[c] = <<"get_info", "contract_query">> /\ IsSome(sent[c])
                /\ out[c].tag = "Ok" => rpc[c] = <<"get_info", "contract_query">>)

\* A session went through all four operations and handed out its payload.
C2_Witness ==
    \E c \in Calls :
        /\ api[c] = "session" /\ out[c].tag = "Ok"
        /\ rpc[c] = <<"get_info", "contract_query">>

\* The key-agreement key call c holds or has used, if any.
EphemeralKeys(c) ==
    (IF IsSome(sent[c]) THEN {SentKey(c)} ELSE {})
    \cup (IF Phase(c) = "Encrypted" THEN {sess[c].state.ecdh_key} ELSE {})

\* C3: no two calls use the same key-agreement key, that key is never the
\* signer's long-lived key, the reply is decrypted with the key the request
\* was encrypted with, and once a call has completed (Computed or dropped)
\* its session holds no key.
C3_FreshEphemeralKey ==
    \A c \in Calls :
        /\ \A d \in Calls \ {c} : EphemeralKeys(c) \cap EphemeralKeys(d) = {}
        /\ SignerKey \notin EphemeralKeys(c)
        /\ IsSome(recv[c]) => IsSome(sent[c]) /\ Unwrap(recv[c]).key = SentKey(c)
        /\ Phase(c) \in {"Computed", "Dropped"} => "ecdh_key" \notin DOMAIN sess[c].state

\* Two calls have each submitted a request and opened the reply.
C3_Witness ==
    \E c, d \in Calls :
        /\ c # d
        /\ api[c] = "session" /\ out[c].tag = "Ok"
        /\ IsSome(recv[d]) /\ out[d].tag = "Ok"

\* The entry points that pick the nonce themselves (the session is handed
\* its nonce by its caller).
NonceChoosers == {"pink_query_raw", "query_test", "dispatch"}

\* C4: the nonces in the request envelopes of any two calls made through
\* contract_query / pink_query_raw or query_test differ.
C4_NoncesDistinct ==
    \A c, d \in Calls :
        (/\ c # d
         /\ api[c] \in NonceChoosers /\ api[d] \in NonceChoosers
         /\ IsSome(sent[c]) /\ IsSome(sent[d]))
        => SentNonce(c) # SentNonce(d)

\* C5: when get_info answers without system information, new() fails with
\* "Worker not initialized": get_info is the only RPC of the call, no
\* request was built or submitted and no key-agreement key exists.
C5_UninitializedWorkerFails ==
    \A c \in Calls :
        info[c] = Some("no_system") =>
            /\ out[c].tag = "Err"
            /\ out[c].err = "Worker not initialized"
            /\ rpc[c] = <<"get_info">>
            /\ sent[c] = NoneV
            /\ recv[c] = NoneV
            /\ EphemeralKeys(c) = {}
            /\ Phase(c) = "Dropped"

\* A session constructor met an uninitialized worker.
C5_Witness ==
    \E c \in Calls : api[c] = "session" /\ info[c] = Some("no_system")

\* The RPCs call c issued, as a set.
RpcSet(c) == {rpc[c][i] : i \in DOMAIN rpc[c]}

\* C7: a dispatched InkQuery only talks to the node (connect, state_call)
\* and never submits a confidential request; a dispatched PhalaQuery only
\* submits the confidential request and never makes the state call; and the
\* session constructor handed an InkQuery returns its error with no RPC made.
C7_OneBackendPerQuery ==
    \A c \in Calls :
        /\ (api[c] = "dispatch" /\ variant[c] = "InkQuery") =>
              /\ RpcSet(c) \subseteq {"node_connect", "state_call"}
              /\ sent[c] = NoneV /\ recv[c] = NoneV /\ info[c] = NoneV
        /\ (api[c] = "dispatch" /\ variant[c] = "PhalaQuery") =>
              /\ RpcSet(c) \subseteq {"contract_query"}
              /\ pc[c] = "Returned"
        /\ (api[c] = "session" /\ variant[c] = "InkQuery") =>
              /\ out[c].tag = "Err"
              /\ out[c].err = "Only Phala queries are allowed"
              /\ rpc[c] = <<>>
              /\ sent[c] = NoneV

\* A dispatched PhalaQuery went through the worker and came back with a value.
C7_Witness ==
    \E c \in Calls :
        /\ api[c] = "dispatch" /\ variant[c] = "PhalaQuery"
        /\ rpc[c] = <<"contract_query">> /\ out[c].tag = "Ok"

\* The RPC names of the model.
RpcNames == {"get_info", "contract_query", "node_connect", "state_call"}
\* The entry points that are one function call from start to end.
OneCallApis == {"dispatch", "query_test", "pink_query_raw"}

\* C8: in every call each RPC is issued at most once; an error ends the
\* call (it has returned, holds nothing, and neither its RPC list nor its
\* outcome changes afterwards); a returned call carries a tagged result; and
\* every call of Query::query, query_test or pink_query_raw does return.
C8_NoRetriesAndTermination ==
    /\ [](\A c \in Calls :
            /\ \A n \in RpcNames :
                  Cardinality({i \in DOMAIN rpc[c] : rpc[c][i] = n}) <= 1
            /\ out[c].tag = "Err" => pc[c] = "Returned" /\ Phase(c) = "Dropped"
            /\ pc[c] = "Returned" => out[c].tag \in {"Ok", "Err"})
    /\ [][\A c \in Calls :
            pc[c] = "Returned" => rpc'[c] = rpc[c] /\ out'[c] = out[c]]_vars
    /\ \A c \in QueryCalls : (api[c] \in OneCallApis) ~> (pc[c] = "Returned")

\* The state call of a dispatched InkQuery failed and the call ended with
\* that error after one connect and one state_call.
C8_Witness ==
    \E c \in Calls :
        /\ api[c] = "dispatch"
        /\ rpc[c] = <<"node_connect", "state_call">>
        /\ out[c].tag = "Err" /\ out[c].err = "Generic: transport"

\* The id kinds the config file `f` holds as strings.
IdsSet(f) ==
    {k \in {"ink_contract_id", "phala_contract_id"} : IsSome(Extract(f[k]))}

\* C6: a config file holding both a direct id and a confidential id, or
\* neither, never yields an InkMeta: loading fails with "Failed to load
\* Contract Id" (from_account may fail earlier on the secret string), and
\* as no instance exists no RPC is made; every InkMeta that is produced
\* comes from a file with exactly one id and has exactly one id set.
C6_ExactlyOneContractId ==
    /\ (cfg.file = "toml" /\ meta # NoMeta /\ Cardinality(IdsSet(cfg)) # 1) =>
          /\ meta.tag = "Err"
          /\ meta.err \in {"Failed to load Contract Id", "Secret string error"}
    /\ (meta = NoMeta \/ meta.tag # "Ok") => \A c \in Calls : rpc[c] = <<>> /\ api[c] = "none"
    /\ (meta # NoMeta /\ meta.tag = "Ok") =>
          /\ Cardinality(IdsSet(cfg)) = 1
          /\ IsSome(meta.val.ink_contract_id) # IsSome(meta.val.phala_contract_id)
          /\ IsSome(meta.val.ink_contract_id) = ("ink_contract_id" \in IdsSet(cfg))

\* A file with both ids was refused for that reason.
C6_Witness ==
    /\ cfg.file = "toml"
    /\ Cardinality(IdsSet(cfg)) = 2
    /\ meta = Err("Failed to load Contract Id")

\* The labels of a list of specs.
Labels(specs) == {specs[i].label : i \in DOMAIN specs}
\* The spec encode has to use: the first one labelled enc.name in the one
\* list that has it.
TheSpec ==
    IF enc.name \in Labels(enc.constructors)
    THEN Unwrap(FindSpec(enc.constructors, enc.name))
    ELSE Unwrap(FindSpec(enc.messages, enc.name))
UniquelyNamed == (enc.name \in Labels(enc.constructors)) # (enc.name \in Labels(enc.messages))

\* C9: encode of a name carried by both a constructor and a message fails
\* with the "both a constructor and message" error naming it, a name carried
\* by neither fails with the "No constructor or message" error naming it,
\* in both cases without bytes and without a literal parsed; whenever bytes
\* come back, exactly one list holds the name and the bytes start with the
\* selector of its spec.
C9_NameResolvesUniquely ==
    enc.state = "done" =>
        /\ (enc.name \in Labels(enc.constructors) /\ enc.name \in Labels(enc.messages)) =>
              /\ enc.out.result =
                    Err("Invalid metadata: both a constructor and message found with name '"
                        \o enc.name \o "'")
              /\ enc.out.parsed = 0
        /\ (enc.name \notin Labels(enc.constructors) /\ enc.name \notin Labels(enc.messages)) =>
              /\ enc.out.result =
                    Err("No constructor or message with the name '" \o enc.name \o "' found")
              /\ enc.out.parsed = 0
        /\ enc.out.result.tag = "Ok" =>
              /\ UniquelyNamed
              /\ Take(enc.out.result.val, 4) = TheSpec.selector

\* encode was called with a name both lists carry, and with literals to parse.
C9_Witness ==
    /\ enc.state = "done"
    /\ enc.name \in Labels(enc.constructors) \cap Labels(enc.messages)
    /\ enc.args # <<>>
    /\ enc.out.result.tag = "Err"

\* C10: for a resolved spec, a number of literals other than the number of
\* declared arguments makes encode fail with the error stating both counts,
\* and no literal has been parsed, malformed or not; bytes come back only
\* when the counts agree and every literal was parsed.
C10_ArityCheckedFirst ==
    (enc.state = "done" /\ UniquelyNamed) =>
        /\ Len(enc.args) # Len(TheSpec.args) =>
              /\ enc.out.result =
                    Err("Invalid number of input arguments: expected "
                        \o ToString(Len(TheSpec.args)) \o ", "
                        \o ToString(Len(enc.args)) \o " provided")
              /\ enc.out.parsed = 0
        /\ enc.out.result.tag = "Ok" =>
              /\ Len(enc.args) = Len(TheSpec.args)
              /\ enc.out.parsed = Len(enc.args)

\* encode was called on a resolved spec with the wrong number of literals,
\* the first of them malformed.
C10_Witness ==
    /\ enc.state = "done"
    /\ UniquelyNamed
    /\ enc.args # <<>>
    /\ Len(enc.args) < Len(TheSpec.args)
    /\ ParseValue(enc.args[1]).tag = "Err"
    /\ enc.out.result.tag = "Err"

\* The encoding of the i-th literal of enc.args against the i-th declared
\* type of TheSpec, or the error of its parse or encoding.
ArgBytes(i) ==
    LET value == ParseValue(enc.args[i]) IN
    IF value.tag = "Err" THEN value ELSE EncodeValue(TheSpec.args[i], value.val)

\* The encodings of literals i..n, one after the other.
RECURSIVE ArgsBytesFrom(_, _)
ArgsBytesFrom(i, n) == IF i > n THEN <<>> ELSE ArgBytes(i).val \o ArgsBytesFrom(i + 1, n)

\* C11: when encode succeeds, the bytes are the 4 selector bytes of the
\* resolved spec followed by the encoding of each literal against the type
\* declared at its position, in order, and nothing else; when the counts
\* agree and some literal fails to parse or encode, encode returns an error
\* and no bytes.
C11_SelectorThenArgsInOrder ==
    (enc.state = "done" /\ UniquelyNamed /\ Len(enc.args) = Len(TheSpec.args)) =>
        IF \A i \in DOMAIN enc.args : ArgBytes(i).tag = "Ok"
        THEN /\ enc.out.result.tag = "Ok"
             /\ enc.out.result.val = TheSpec.selector \o ArgsBytesFrom(1, Len(enc.args))
             /\ Len(TheSpec.selector) = 4
        ELSE /\ enc.out.result.tag = "Err"
             /\ "val" \notin DOMAIN enc.out.result

\* encode succeeded on two literals of different types.
C11_Witness ==
    /\ enc.state = "done"
    /\ UniquelyNamed
    /\ enc.out.result.tag = "Ok"
    /\ Len(enc.args) = 2
    /\ TheSpec.args[1] # TheSpec.args[2]


\* ---- decode functions ----

\* The list of specs a decode call of kind `op` chooses from.
Namespace(op, e) ==
    IF op = "message" THEN e.messages
    ELSE IF op = "constructor" THEN e.constructors
    ELSE e.events

\* The number of bytes in front of the fields: the 4-byte selector, or for
\* an event the compact length and the index byte.
HeaderLen(op, data) ==
    IF op # "event" THEN 4
    ELSE IF data = <<>> THEN 2
    ELSE 1 + (CASE Head(data) % 4 = 0 -> 1 [] Head(data) % 4 = 1 -> 2
                [] Head(data) % 4 = 2 -> 4 [] OTHER -> 5)

\* Whether the declared fields `args` all decode from the front of `data`.
RECURSIVE FieldsFit(_, _)
FieldsFit(args, data) ==
    \/ args = <<>>
    \/ /\ data # <<>>
       /\ Head(args).ty = "bool" => Head(data) \in {0, 1}
       /\ FieldsFit(Tail(args), Tail(data))

DecodeOps == {"message", "constructor", "event"}

\* The positions in the namespace of the spec a decode call of kind `op`
\* decodes `data` with: none when the header is short or names no spec.
Chosen(op, e, data) ==
    LET specs == Namespace(op, e) IN
    IF Len(data) < HeaderLen(op, data) THEN {}
    ELSE IF op = "event"
    THEN {i \in DOMAIN specs : CompactU32(data).tag = "Ok"
                               /\ i = data[HeaderLen(op, data)] + 1}
    ELSE {i \in DOMAIN specs :
            /\ specs[i].selector = Take(data, 4)
            /\ \A j \in 1..(i - 1) : specs[j].selector # Take(data, 4)}

\* The names the error about unread bytes lists: the spec, then its fields.
RECURSIVE DecodedNames(_, _)
DecodedNames(label, args) ==
    IF args = <<>> THEN label
    ELSE DecodedNames(label \o ", " \o Head(args).label, Tail(args))

\* C12: decode_contract_message, decode_contract_constructor and
\* decode_contract_event return a value only when the input is used up
\* exactly, and that value is the Map named after the chosen spec with one
\* entry per declared field in declared order; input with bytes left after
\* the last field is an error that gives the number of bytes left and the
\* bytes themselves; input too short for the declared fields is an error.
C12_DecodeExhaustsInput ==
    (enc.state = "done" /\ enc.op \in DecodeOps) =>
        LET specs == Namespace(enc.op, enc.metadata)
            header == HeaderLen(enc.op, enc.data)
            fields == Drop(enc.data, header)
            chosen == Chosen(enc.op, enc.metadata, enc.data)
        IN /\ enc.out.tag = "Ok" =>
                \E i \in chosen :
                    /\ enc.out.val.t = "Map"
                    /\ enc.out.val.ident = specs[i].label
                    /\ Len(enc.out.val.entries) = Len(specs[i].args)
                    /\ \A k \in DOMAIN specs[i].args :
                           enc.out.val.entries[k][1] = specs[i].args[k].label
                    /\ Len(enc.data) = header + Len(specs[i].args)
           /\ \A i \in chosen :
                  LET n == Len(specs[i].args)
                      left == Drop(fields, n)
                  IN /\ (Len(fields) > n /\ FieldsFit(specs[i].args, fields)) =>
                         enc.out = Err("input length was longer than expected by "
                                       \o ToString(Len(left))
                                       \o " byte(s).\nManaged to decode "
                                       \o DecodedNames(specs[i].label, specs[i].args)
                                       \o " but " \o ToString(left)
                                       \o " bytes were left unread")
                     /\ Len(fields) < n => enc.out.tag = "Err"

C12_Witness ==
    /\ enc.state = "done"
    /\ enc.op \in DecodeOps
    /\ enc.out.tag = "Err"
    /\ \E i \in Chosen(enc.op, enc.metadata, enc.data) :
           LET args == Namespace(enc.op, enc.metadata)[i].args
               fields == Drop(enc.data, HeaderLen(enc.op, enc.data))
           IN /\ Len(args) = 2
              /\ FieldsFit(args, fields)
              /\ Len(fields) > Len(args)

\* The error of a selector lookup that found no spec of the kind decoded.
NotFound(op, selector) ==
    Err((IF op = "message" THEN "Message" ELSE "Constructor") \o " with selector "
        \o ToString(selector) \o " not found in contract metadata")

\* C13: decode_contract_message looks the 4-byte prefix up among the message
\* specs only and decode_contract_constructor among the constructor specs
\* only: a selector no spec of that kind has gives the not-found error even
\* when a spec of the other kind has it, and a value is always the map of a
\* spec of the kind decoded, carrying that spec's label and fields.
C13_SelectorNamespaces ==
    (enc.state = "done" /\ enc.op \in {"message", "constructor"} /\ Len(enc.data) >= 4) =>
        LET own == Namespace(enc.op, enc.metadata)
            selector == Take(enc.data, 4)
            matching == {i \in DOMAIN own : own[i].selector = selector}
        IN /\ matching = {} <=> enc.out = NotFound(enc.op, selector)
           /\ enc.out.tag = "Ok" =>
                \E i \in matching :
                    /\ enc.out.val.ident = own[i].label
                    /\ Len(enc.out.val.entries) = Len(own[i].args)
                    /\ \A k \in DOMAIN own[i].args :
                           enc.out.val.entries[k][1] = own[i].args[k].label

C13_Witness ==
    /\ enc.state = "done"
    /\ enc.op = "message"
    /\ enc.out.tag = "Ok"
    /\ \E i \in DOMAIN enc.metadata.messages, j \in DOMAIN enc.metadata.constructors :
           /\ enc.metadata.messages[i].selector = Take(enc.data, 4)
           /\ enc.metadata.constructors[j].selector = Take(enc.data, 4)
           /\ enc.metadata.messages[i].args # enc.metadata.constructors[j].args
           /\ enc.out.val.ident = enc.metadata.messages[i].label

\* The value a one-byte field of type `ty` holding `byte` decodes to.
FieldValue(ty, byte) ==
    IF ty = "bool" THEN [t |-> "Bool", bool |-> byte = 1] ELSE [t |-> "UInt", uint |-> byte]

Named(e, name) == {i \in DOMAIN e.messages : e.messages[i].label = name}

\* C15: decode_return(name, bytes) fails when no message has the name;
\* for a message without a return type it yields Unit whatever the bytes;
\* otherwise it yields what the bytes, read from their first byte with no
\* selector in front, decode to against the declared return type, or the
\* error of that decode.
C15_DecodeReturn ==
    (enc.state = "done" /\ enc.op = "return") =>
        LET named == Named(enc.metadata, enc.name) IN
        /\ named = {} <=>
               enc.out = Err("Failed to find message spec with name '" \o enc.name \o "'")
        /\ \A i \in named :
               LET return_type == enc.metadata.messages[i].return_type IN
               IF ~IsSome(return_type) THEN enc.out = Ok([t |-> "Unit"])
               ELSE IF enc.data = <<>> THEN enc.out.tag = "Err"
               ELSE IF Unwrap(return_type) = "bool" /\ enc.data[1] \notin {0, 1}
               THEN enc.out.tag = "Err"
               ELSE enc.out = Ok(FieldValue(Unwrap(return_type), enc.data[1]))

C15_Witness ==
    /\ enc.state = "done"
    /\ enc.op = "return"
    /\ enc.out.tag = "Ok"
    /\ enc.out.val.t # "Unit"
    /\ Len(enc.data) > 4
    /\ enc.data[1] # enc.data[5]

\* C16: for every type id the codec supports and every value that encodes
\* against it, decoding the bytes that encode produced gives the value back
\* and leaves exactly the bytes that were behind them.
C16_RoundTrip ==
    enc.state = "decoded" =>
        /\ enc.back.tag = "Ok"
        /\ enc.back.val = enc.value
        /\ enc.back.rest = enc.after

\* ---- literal parser ----

\* The digits of a text made of digits and `_` only.
Unseparated(s) == SelectSeq(s, LAMBDA ch : ch # "_")

\* The text, behind its leading white space, is a numeric literal as a
\* whole: an optional sign, then groups of digits separated by single `_`,
\* of a value in the range of i128 (signed) or u128 (unsigned).
NumericLiteral(input) ==
    LET text == SkipWs(input)
        signed == text # <<>> /\ Head(text) \in {"+", "-"}
        body == IF signed THEN Tail(text) ELSE text
        limit == IF ~signed THEN U128Max
                 ELSE IF Head(text) = "-" THEN I128MinMagnitude ELSE I128Max
    IN /\ body # <<>>
       /\ \A i \in DOMAIN body : body[i] \in Digits \cup {"_"}
       /\ body[1] # "_" /\ body[Len(body)] # "_"
       /\ \A i \in 1..(Len(body) - 1) : ~(body[i] = "_" /\ body[i + 1] = "_")
       /\ DigitsLeq(Canonical(Unseparated(body)), limit)

\* How many alphanumeric characters the text starts with.
LeadingRun(input) == PrefixLen(SkipWs(input), Alpha \cup Digits)

\* C17 as stated: the parser produces a Literal only for an alphanumeric run
\* of more than 39 characters, and every numeric literal (digits with an
\* optional sign and `_` separators, of a value in the integer range) is
\* parsed as UInt or Int, never as a Literal.
C17_NumericNeverLiteral ==
    enc.state = "done" =>
        /\ (enc.out.tag = "Ok" /\ enc.out.val.t = "Literal") =>
               /\ Len(enc.out.val.literal) > MAX_UINT_LEN
               /\ \A i \in DOMAIN enc.out.val.literal :
                      enc.out.val.literal[i] \in Alpha \cup Digits
        /\ NumericLiteral(enc.input) =>
               (enc.out.tag = "Ok" /\ enc.out.val.t \in {"UInt", "Int"})

\* C17, amended: the parser produces a Literal only for an alphanumeric run
\* of more than 39 characters, and every numeric literal that does not start
\* with a run of more than 39 digits is parsed as UInt or Int, never as a
\* Literal; a numeric literal that starts with more than 39 digits (its
\* value in range through leading zeros) is parsed as a Literal.
C17_ShortNumericNeverLiteral ==
    enc.state = "done" =>
        /\ (enc.out.tag = "Ok" /\ enc.out.val.t = "Literal") =>
               /\ Len(enc.out.val.literal) > MAX_UINT_LEN
               /\ \A i \in DOMAIN enc.out.val.literal :
                      enc.out.val.literal[i] \in Alpha \cup Digits
        /\ (NumericLiteral(enc.input) /\ LeadingRun(enc.input) <= MAX_UINT_LEN) =>
               (enc.out.tag = "Ok" /\ enc.out.val.t \in {"UInt", "Int"})
        /\ (NumericLiteral(enc.input) /\ LeadingRun(enc.input) > MAX_UINT_LEN) =>
               (enc.out.tag = "Ok" /\ enc.out.val.t = "Literal")

C17_Witness ==
    /\ enc.state = "done"
    /\ NumericLiteral(enc.input)
    /\ LeadingRun(enc.input) = MAX_UINT_LEN
    /\ enc.out.tag = "Ok"
    /\ enc.out.val.t = "UInt"

\* The text opens a string, or a sequence, and never closes it.
Unterminated(input) ==
    LET text == SkipWs(input) IN
    /\ text # <<>>
    /\ \/ Head(text) = "\"" /\ \A i \in 2..Len(text) : text[i] # "\""
       \/ Head(text) = "[" /\ \A i \in 2..Len(text) : text[i] # "]"

\* The text is an optional sign and groups of digits separated by single
\* `_`, and the number is outside the range of 128 bits.
Overflowing(input) ==
    LET text == SkipWs(input)
        signed == text # <<>> /\ Head(text) \in {"+", "-"}
        body == IF signed THEN Tail(text) ELSE text
        limit == IF ~signed THEN U128Max
                 ELSE IF Head(text) = "-" THEN I128MinMagnitude ELSE I128Max
    IN /\ body # <<>>
       /\ \A i \in DOMAIN body : body[i] \in Digits \cup {"_"}
       /\ body[1] # "_" /\ body[Len(body)] # "_"
       /\ \A i \in 1..(Len(body) - 1) : ~(body[i] = "_" /\ body[i + 1] = "_")
       /\ ~DigitsLeq(Canonical(Unseparated(body)), limit)

\* The text is 0x followed by a token that is not made of hex digits.
InvalidHex(input) ==
    LET text == SkipWs(input) IN
    /\ StartsWith(text, <<"0", "x">>)
    /\ \E i \in 3..Len(text) :
           /\ text[i] \notin HexDigits
           /\ \A j \in 3..i : text[j] \in Alpha \cup Digits \cup {"_"}

\* The text starts with a character that none of the alternatives of the
\* grammar starts with, or is empty.
Unmatched(input) ==
    LET text == SkipWs(input) IN
    text = <<>> \/ Head(text) \notin Alpha \cup Digits \cup {"(", "[", "\"", "'", "+", "-", "_"}

\* C18: parse_value returns an error, and never a Value, for a text that is
\* an unterminated string or sequence, an integer whose digits overflow the
\* range of 128 bits, a token of 0x and invalid hex digits, or that matches
\* no alternative of the grammar.
C18_MalformedTextIsAnError ==
    (/\ enc.state = "done"
     /\ \/ Unterminated(enc.input)
        \/ Overflowing(enc.input)
        \/ InvalidHex(enc.input)
        \/ Unmatched(enc.input))
    => enc.out.tag = "Err"

\* ---- nonce mismatch and the errors of the contract ----

\* The reply held a decodable response with a nonce other than the one sent.
ReplyEchoesOther == enc.resp.kind = "encrypted" /\ enc.resp.body.decodable
                    /\ enc.resp.body.nonce # enc.nonce

\* The caller was given the nonce-mismatch error.
NonceMismatchReported ==
    enc.out = (IF enc.mode = "dispatch" THEN Err("Generic: nonce mismatch")
               ELSE Err("nonce mismatch"))

\* The reply decrypted, decoded, echoed the nonce sent and carried an error
\* of the contract call: a QueryError, or a dispatch error in the dry run.
ContractError ==
    /\ enc.resp.kind = "encrypted" /\ enc.resp.to = enc.key
    /\ enc.resp.body.decodable /\ enc.resp.body.nonce = enc.nonce
    /\ enc.mode # "session"
    /\ \/ enc.resp.body.result = Err("QueryError")
       \/ /\ enc.mode = "dispatch"
          /\ enc.resp.body.result.tag = "Ok"
          /\ enc.resp.body.result.val.exec = "dispatch_error"

\* C19 as stated: a reply echoing a nonce other than the one sent ends the
\* confidential query in the nonce-mismatch error whether or not the reply
\* could be decrypted, and that error is not what the caller gets for an
\* error of the contract call.
C19_MismatchRegardlessOfDecryption ==
    enc.state = "done" =>
        /\ ReplyEchoesOther => NonceMismatchReported
        /\ ContractError => ~NonceMismatchReported

\* C19, amended: a reply that decrypts and echoes a nonce other than the one
\* sent ends the confidential query in the nonce-mismatch error; a reply
\* that cannot be decrypted ends it in the decryption error, whatever nonce
\* it holds; the nonce-mismatch error is not what the caller gets for an
\* error of the contract call, which is a QueryError or dispatch error.
C19_MismatchAfterDecryption ==
    enc.state = "done" =>
        /\ (ReplyEchoesOther /\ enc.resp.to = enc.key) => NonceMismatchReported
        /\ (enc.resp.kind = "encrypted" /\ enc.resp.to # enc.key) =>
               enc.out = (IF enc.mode = "dispatch" THEN Err("Generic: Decrypt data failed")
                          ELSE Err("Decrypt data failed"))
        /\ ContractError =>
               /\ ~NonceMismatchReported
               /\ enc.out \in {Ok(Err("QueryError")), Err("Generic: QueryError"),
                               Err("Generic: DispatchError")}

C19_Witness ==
    /\ enc.state = "done"
    /\ enc.mode = "dispatch"
    /\ ReplyEchoesOther
    /\ enc.resp.to = enc.key
    /\ enc.out = Err("Generic: nonce mismatch")

\* ---- concurrent sessions ----

\* Everything the model keeps of call c.
CallState(c) == <<api[c], variant[c], pc[c], sess[c], rpc[c], out[c], sent[c], recv[c], info[c]>>

\* Two sessions that have each submitted a request, with different nonces.
ConcurrentSessions(c, d) ==
    /\ c # d
    /\ api[c] = "session" /\ api[d] = "session"
    /\ IsSome(sent[c]) /\ IsSome(sent[d])
    /\ SentNonce(c) # SentNonce(d)

\* C20: of two sessions running interleaved with different nonces, one
\* holds or returns a result only if the reply it opened was encrypted to
\* its own key, which is not the other's, and echoed its own nonce; a reply
\* echoing the other's nonce ends it in the nonce-mismatch error, a reply
\* it cannot decrypt in an error without an echo; and no step of one call
\* changes anything of another call.
C20_SessionsDoNotMix ==
    /\ [](\A c, d \in Calls :
            ConcurrentSessions(c, d) =>
                /\ Exposed(c) =>
                      /\ Unwrap(recv[c]).key = SentKey(c)
                      /\ SentKey(c) # SentKey(d)
                      /\ Unwrap(recv[c]).echo = Some(SentNonce(c))
                /\ (IsSome(recv[c]) /\ Unwrap(recv[c]).echo = Some(SentNonce(d))) =>
                      out[c] = Err("nonce mismatch")
                /\ (IsSome(recv[c]) /\ Unwrap(recv[c]).echo = NoneV) =>
                      out[c] \in {Err("Decrypt data failed"), Err("decode")})
    /\ [][\A c, d \in Calls :
            (c # d /\ CallState(c)' # CallState(c)) => CallState(d)' = CallState(d)]_vars

C20_Witness ==
    \E c, d \in Calls :
        /\ ConcurrentSessions(c, d)
        /\ out[c].tag = "Ok"
        /\ IsSome(recv[d]) /\ Unwrap(recv[d]).echo = Some(SentNonce(c))
        /\ out[d] = Err("nonce mismatch")

\* The reply decrypts with the call's key and echoes nonce n.
EchoesNonce(n) ==
    /\ enc.resp.kind = "encrypted"
    /\ enc.resp.to = enc.key
    /\ enc.resp.body.decodable
    /\ enc.resp.body.nonce = n

\* C21: within one confidential call a single nonce is used throughout: the
\* nonce in the envelope head of the submitted request is the nonce the
\* caller supplied, a reply echoing the caller's nonce passes the nonce
\* check, and on every confidential path (query_test included) the IV of
\* the ciphertext is the one derived from the envelope's nonce.
C21_OneNonceThroughout ==
    enc.state = "done" =>
        LET e == Unwrap(enc.req).encrypted IN
        /\ e.iv = GenerateIv(e.plain.nonce)
        /\ IsSome(enc.nonce) =>
              /\ e.plain.nonce = Unwrap(enc.nonce)
              /\ EchoesNonce(Unwrap(enc.nonce)) =>
                    ~(enc.out.tag = "Err"
                      /\ enc.out.err \in {"nonce mismatch", "Generic: nonce mismatch"})

\* The leaf certificate attached to the request of call c.
LeafCert(c) == Unwrap(sent[c]).signature.signed_by
\* Pairs generated within call c.
GeneratedIn(c) == {GenerateKey(c, k) : k \in 1..3}

\* C22: every submitted request is signed over its encoded ciphertext, not
\* over the plaintext envelope, by the key whose public key the attached
\* leaf certificate holds.  With a single certificate (no parent signature)
\* that key is the caller's long-lived signing key.  With a chain the leaf
\* holds a data key generated in this call and is signed, over its body, by
\* a root key generated in this call, different from the data key and from
\* the key-agreement key, whose public key the unsigned root certificate holds.
C22_SignatureOverCiphertext ==
    \A c \in Calls : IsSome(sent[c]) =>
        LET req == Unwrap(sent[c])
            leaf == LeafCert(c)
        IN /\ req.signature.over = req.encrypted
           /\ req.signature.over # req.encrypted.plain
           /\ req.signature.by = leaf.pubkey
           /\ IF ~IsSome(leaf.signature)
              THEN leaf.pubkey = SignerKey
              ELSE LET cs == Unwrap(leaf.signature) IN
                   /\ leaf.pubkey \in GeneratedIn(c)
                   /\ cs.by \in GeneratedIn(c)
                   /\ cs.by = cs.signed_by.pubkey
                   /\ ~IsSome(cs.signed_by.signature)
                   /\ cs.over = Certificate(leaf.pubkey, NoneV)
                   /\ Cardinality({cs.by, leaf.pubkey, req.encrypted.key, SignerKey}) = 4

\* One call submitted a request with a single certificate and the other a
\* request with the two-level chain.
C22_Witness ==
    \E c, d \in Calls :
        /\ IsSome(sent[c]) /\ IsSome(sent[d])
        /\ ~IsSome(LeafCert(c).signature)
        /\ IsSome(LeafCert(d).signature)

\* Call c is a transparent query: Query::query handed an InkQuery.
Transparent(c) == api[c] = "dispatch" /\ variant[c] = "InkQuery"

\* C23: a query that returned its result made exactly one RPC on the
\* transparent path, and exactly two on the confidential path, the
\* worker-info fetch and then the query submission; nothing else went over
\* the network.
C23_RoundTrips ==
    \A c \in Calls : out[c].tag = "Ok" =>
        IF Transparent(c)
        THEN rpc[c] = <<"state_call">>
        ELSE rpc[c] = <<"get_info", "contract_query">>

\* ---- bare identifiers and trailing text ----

\* The identifier the text consists of, white space around it aside:
\* a letter or `_`, then letters, digits and `_`, and nothing behind it.
\* The empty sequence when the text is no bare identifier.
BareIdent(input) ==
    LET text == SkipWs(input)
        n == PrefixLen(text, Alpha \cup Digits \cup {"_"})
    IN IF /\ text # <<>>
          /\ Head(text) \in Alpha \cup {"_"}
          /\ SkipWs(Drop(text, n)) = <<>>
       THEN Take(text, n) ELSE <<>>

\* The identifier starts with one of the boolean keywords.
KeywordFirst(ident) ==
    StartsWith(ident, <<"t", "r", "u", "e">>) \/ StartsWith(ident, <<"f", "a", "l", "s", "e">>)

ModuleError(kind) ==
    /\ enc.path = "ink_query"
    /\ enc.result.exec = "dispatch_error"
    /\ enc.result.error = kind

Overrides(b) == <<b.encoders, b.decoders>>

\* C26: a register call for a type whose id already holds an override of
\* that kind panics, and once it has panicked no Transcoder is built; in
\* every other step an override that is held stays as it is, so a built
\* Transcoder carries no replaced override; and a register call for a type
\* whose path is not in the registry changes neither map.
C26_NoSilentOverwrite ==
    [][/\ enc.state = "building"
       /\ enc'.state = "built" => Overrides(enc') = Overrides(enc)
       /\ enc'.state # "panicked" =>
              /\ \A id \in DOMAIN enc.encoders :
                     id \in DOMAIN enc'.encoders /\ enc'.encoders[id] = enc.encoders[id]
              /\ \A id \in DOMAIN enc.decoders :
                     id \in DOMAIN enc'.decoders /\ enc'.decoders[id] = enc.decoders[id]
       /\ enc'.calls = enc.calls + 1 =>
              LET call == Unwrap(enc'.last)
                  known == call.type \in DOMAIN enc.types_by_path
                  id == enc.types_by_path[call.type]
                  held == \/ call.op \in {"encoder", "transcoder"} /\ id \in DOMAIN enc.encoders
                          \/ call.op \in {"decoder", "transcoder"} /\ id \in DOMAIN enc.decoders
              IN /\ ~known => (Overrides(enc') = Overrides(enc) /\ enc'.state = "building")
                 /\ known => (enc'.state = "panicked" <=> held)
      ]_vars

\* A second encoder was registered for a type id that held one: the builder
\* is lost to the panic.
C26_Witness ==
    /\ enc.state = "panicked"
    /\ IsSome(enc.last)
    /\ Unwrap(enc.last).op = "encoder"
    /\ enc.calls = 2

\* ---- exact consumption by every decode ----

\* C27: every decode of the message transcoder that returns a value has
\* used its input up exactly: decode_contract_message, _constructor and
\* _event the header and the declared fields, and decode_return, for a
\* message with a return type, the bytes of the return value; bytes left
\* behind a complete decode give an error, never a value.
C27_EveryDecodeExhaustsInput ==
    (enc.state = "done" /\ enc.out.tag = "Ok") =>
        /\ enc.op \in DecodeOps =>
               \E i \in Chosen(enc.op, enc.metadata, enc.data) :
                   Len(enc.data) = HeaderLen(enc.op, enc.data)
                                   + Len(Namespace(enc.op, enc.metadata)[i].args)
        /\ enc.op = "return" =>
               \A i \in Named(enc.metadata, enc.name) :
                   IsSome(enc.metadata.messages[i].return_type) => Len(enc.data) = 1

\* ---- the optional fields of a session ----

\* The three Option fields of the session of call c that are Some.
PresentFields(c) ==
    {f \in {"nonce", "remote_pubkey", "signer"} : IsSome(sess[c][f])}

\* C28: a session in the InProcess or the Encrypted state holds its nonce,
\* the worker's public key and the signer, so the unwraps of
\* encrypt_and_sign and query find a value; a session in the Ready or the
\* Computed state holds none of the three.
C28_FieldsPresentWhileInFlight ==
    \A c \in Calls :
        /\ Phase(c) \in {"InProcess", "Encrypted"} =>
               PresentFields(c) = {"nonce", "remote_pubkey", "signer"}
        /\ Phase(c) \in {"Ready", "Computed"} => PresentFields(c) = {}

\* One session is Encrypted with its three fields, another is Computed
\* with none.
C28_Witness ==
    \E c, d \in Calls :
        /\ Phase(c) = "Encrypted"
        /\ PresentFields(c) = {"nonce", "remote_pubkey", "signer"}
        /\ Phase(d) = "Computed"
        /\ PresentFields(d) = {}

\* C29: when parse_value returns a value, the value and the white space
\* around it are the whole text: the grammar leaves nothing of the input
\* unread behind the value.
C29_WholeInputConsumed ==
    (enc.state = "done" /\ enc.out.tag = "Ok") => SconValue(enc.input).rest = <<>>

\* C30: on the transparent and on the confidential path alike, a query
\* whose dry-run result has the revert flag set returns an error, never a
\* decoded Value.
C30_NoValueFromRevert ==
    (enc.state = "done" /\ enc.result.exec = "ok" /\ enc.result.revert) =>
        enc.out.tag = "Err"

====
